---- MODULE Spec2Model ----
(***************************************************************************)
(* Model of shogitest: the RoundRobin tournament, the Runner scheduler and *)
(* its worker threads, the match driver (run_match / do_adjudication), the *)
(* time control clock (EngineTime, to_usi_string) and the POSIX timed      *)
(* reader (Engine::read_with_timeout).                                     *)
(*                                                                         *)
(* Option<T> values are modelled as sequences: None is <<>>, Some(x) is    *)
(* <<x>>.  Rust arrays [a, b] are the tuples <<a, b>> (index 0 is [1]).    *)
(***************************************************************************)
EXTENDS Integers, Sequences, FiniteSets, TLC

VARIABLES
    \* ---- RoundRobin (src/tournament/round_robin.rs) ----
    rr,             \* the RoundRobin object
    rrLog,          \* values returned by successive next() calls
    rrState,        \* values returned by successive match_complete() calls
    \* ---- Runner::run and runner_thread_main (src/runner.rs) ----
    sprt,           \* TRUE when an early-stopping wrapper is in the chain
    concurrency,    \* Runner.concurrency
    spc,            \* scheduler position
    state,          \* scheduler local `state`
    ticket,         \* scheduler local `ticket` (lookahead)
    wpc,            \* position of each worker thread
    wticket,        \* ticket held by each worker
    received,       \* log of hand-offs: <<worker, ticket>>
    started,        \* tickets passed to tournament.match_started, in order
    results,        \* results received by the scheduler: {<<worker, ticket>>}
    nextCalls,      \* number of tournament.next() calls made by the scheduler
    nonesSent,      \* None tickets received, per worker
    completeCalls,  \* number of tournament_complete() calls
    report_interval, \* Runner.report_interval
    match_count,    \* the scheduler's match_count
    reports,        \* values of match_count at each print_interval_report()
    \* ---- run_match (src/runner.rs) ----
    mpc,            \* position of run_match
    adjudication,   \* cli::AdjudicationOptions
    engine_time,    \* the two clocks, indexed by colour
    stm,            \* game.stm()
    match_result,   \* [outcome, moves]
    ret,            \* what run_match returned
    sent,           \* what run_match wrote to / awaited from each engine
    last,           \* what happened on the final ply
    \* ---- Engine::read_with_timeout (src/engine.rs) ----
    rdpc,           \* position of the reader
    timeout,        \* the `timeout` argument
    pipe,           \* bytes written by the child, not yet read
    childOpen,      \* the child still holds its stdout open
    read_buf,       \* Engine.read_buf
    lines,          \* lines handed to the callback during this call
    rdres,          \* EngineResult returned by the call
    elapsed,        \* time since the call began
    polled,         \* time since the current poll() began
    stream,         \* every byte the child has written so far
    delivered,      \* every line handed to a callback, over all calls
    \* ---- EngineTime alone (src/tc.rs) ----
    clock,          \* an EngineTime
    charge,         \* the last step: duration, clock before it, StepResult
    charges,        \* number of step() calls made
    \* ---- to_usi_string (src/tc.rs) ----
    goTimes,        \* the two clocks: <<sente_time, gote_time>>
    goArgs,         \* the last to_usi_string call: colour and result
    goCharges,      \* number of step() calls made on the two clocks
    \* ---- do_adjudication alone (src/runner.rs) ----
    adjOpts,        \* cli::AdjudicationOptions
    adjMoves,       \* match_result.moves
    adjOut,         \* match_result.outcome after the last call
    adjStm,         \* the colour handed to the last call
    \* ---- EngineBuilder::init (src/engine.rs) ----
    ipc,            \* position inside init()
    builder,        \* the EngineBuilder: name, cmd, usi_options
    sentLines,      \* lines written to the engine's stdin
    seen,           \* lines handed to the usiok callback
    usi_name,       \* the callback's usi_name
    engine_name,    \* Engine.name
    usiRes,         \* EngineResult of the wait for usiok
    initRet,        \* what init() returned
    \* ---- runner_thread_main (src/runner.rs) ----
    tpc,            \* position of the worker thread
    engines,        \* for each of the thread's engines: is it still connected
    job,            \* the ticket being run
    jobResult,      \* the outcome of the last run_match that returned Ok
    jobsDone,       \* number of results sent
    failure,        \* why the thread panicked
    \* ---- the poll timeout of read_with_timeout (src/engine.rs) ----
    pollArg,        \* the `timeout` argument of the call
    pollMs,         \* timeout_ms, as handed to poll()
    polls,          \* number of calls made
    \* ---- TimeControl as text (src/tc.rs) ----
    tcpc,           \* "new", "formatted" or "parsed"
    tcv,            \* the TimeControl value
    tcText,         \* tcv.to_string(), a sequence of characters
    tcParsed,       \* TimeControl::parse(tcText)
    \* ---- the wrapper chain (src/tournament, src/main.rs) ----
    pgnOn,          \* is a PgnOutWrapper part of the chain
    chain,          \* the wrapped RoundRobin, what was done and what it returned
    outerCalls,     \* the calls made on the outermost Tournament
    outerRet,       \* what these calls returned
    chainPanic      \* a call panicked

rrVars     == <<rr, rrLog, rrState>>
runnerVars == <<sprt, concurrency, spc, state, ticket, wpc, wticket, received,
                started, results, nextCalls, nonesSent, completeCalls,
                report_interval, match_count, reports>>
matchVars  == <<mpc, adjudication, engine_time, stm, match_result, ret, last,
                sent>>
readerVars == <<rdpc, timeout, pipe, childOpen, read_buf, lines, rdres,
                elapsed, polled, stream, delivered>>
clockVars  == <<clock, charge, charges>>
goVars     == <<goTimes, goArgs, goCharges>>
adjVars    == <<adjOpts, adjMoves, adjOut, adjStm>>
usiVars    == <<ipc, builder, sentLines, seen, usi_name, engine_name, usiRes,
                initRet>>
threadVars == <<tpc, engines, job, jobResult, jobsDone, failure>>
pollVars   == <<pollArg, pollMs, polls>>
textVars   == <<tcpc, tcv, tcText, tcParsed>>
chainVars  == <<pgnOn, chain, outerCalls, outerRet, chainPanic>>
vars       == <<rrVars, runnerVars, matchVars, readerVars, clockVars, goVars,
              adjVars, usiVars, threadVars, pollVars, textVars, chainVars>>

NotRunner == <<matchVars, readerVars, clockVars, goVars, adjVars, usiVars,
              threadVars, pollVars, textVars, chainVars>>
NotMatch  == <<rrVars, runnerVars, readerVars, clockVars, goVars, adjVars,
              usiVars, threadVars, pollVars, textVars, chainVars>>
NotReader == <<rrVars, runnerVars, matchVars, clockVars, goVars, adjVars,
              usiVars, threadVars, pollVars, textVars, chainVars>>
NotRR     == <<runnerVars, matchVars, readerVars, clockVars, goVars, adjVars,
              usiVars, threadVars, pollVars, textVars, chainVars>>
NotClock  == <<rrVars, runnerVars, matchVars, readerVars, goVars, adjVars,
              usiVars, threadVars, pollVars, textVars, chainVars>>
NotGo     == <<rrVars, runnerVars, matchVars, readerVars, clockVars, adjVars,
              usiVars, threadVars, pollVars, textVars, chainVars>>
NotAdj    == <<rrVars, runnerVars, matchVars, readerVars, clockVars, goVars,
              usiVars, threadVars, pollVars, textVars, chainVars>>
NotUsi    == <<rrVars, runnerVars, matchVars, readerVars, clockVars, goVars,
              adjVars, threadVars, pollVars, textVars, chainVars>>
NotThread == <<rrVars, runnerVars, matchVars, readerVars, clockVars, goVars,
              adjVars, usiVars, pollVars, textVars, chainVars>>
NotPoll   == <<rrVars, runnerVars, matchVars, readerVars, clockVars, goVars,
              adjVars, usiVars, threadVars, textVars, chainVars>>
NotText   == <<rrVars, runnerVars, matchVars, readerVars, clockVars, goVars,
              adjVars, usiVars, threadVars, pollVars, chainVars>>
NotChain  == <<rrVars, runnerVars, matchVars, readerVars, clockVars, goVars,
              adjVars, usiVars, threadVars, pollVars, textVars>>

None    == <<>>
Some(x) == <<x>>
IsSome(o) == Len(o) = 1
IsNone(o) == Len(o) = 0
Unwrap(o) == o[1]

\* ---- bounds ----
MaxPlayers == 3
MaxRounds  == 3
MaxGames   == 2
MaxCalls   == 20
BookLen    == 2

(***************************************************************************)
(* RoundRobin                                                              *)
(***************************************************************************)
pairings_count(players) == (players * (players - 1)) \div 2

\* OpeningBook::advance: the book moves on by one position (cyclic).
BookAdvance(o) == (o + 1) % BookLen

RoundRobin_new(players, rounds, games) ==
    [ match_index       |-> 0,
      completed_matches |-> 0,
      next_players      |-> <<0, 1>>,
      players           |-> players,
      total_matches     |-> IF IsSome(games)
                            THEN Some(pairings_count(players) * rounds * Unwrap(games))
                            ELSE None,
      rounds            |-> rounds,
      games             |-> games,
      openings          |-> 0 ]

\* The pairing cursor after one round-group.
AdvancePlayers(np, players) ==
    LET a == <<np[1], np[2] + 1>> IN
    IF a[2] >= players
    THEN LET b == <<a[1] + 1, a[1] + 2>> IN
         IF b[2] >= players THEN <<0, 1>> ELSE b
    ELSE a

\* round_robin.rs 44: colours are swapped on the odd rounds of a pairing.
Swapped_OnOddId(self, id) == id % 2 = 1
Swapped(self, id) == (id % self.rounds) % 2 = 1

\* round_robin.rs 62-63: no ticket once total_matches have been issued.
Exhausted_Once(self, id) ==
    IsSome(self.total_matches) /\ id = Unwrap(self.total_matches)
Exhausted_OffByOne(self, id) ==
    IsSome(self.total_matches) /\ id > Unwrap(self.total_matches)
Exhausted(self, id) ==
    IsSome(self.total_matches) /\ id >= Unwrap(self.total_matches)

\* RoundRobin::next: the returned Option<MatchTicket> and the object after
\* the call.
RoundRobin_next(self) ==
    LET id      == self.match_index
        opening == self.openings
        players == IF Swapped(self, id)
                   THEN <<self.next_players[2], self.next_players[1]>>
                   ELSE self.next_players
        mi      == self.match_index + 1
        group   == mi % self.rounds = 0
        after   == [self EXCEPT
                     !.match_index  = mi,
                     !.openings     = IF group THEN BookAdvance(@) ELSE @,
                     !.next_players = IF group
                                      THEN AdvancePlayers(@, self.players)
                                      ELSE @]
    IN [ ret  |-> IF Exhausted(self, id)
                  THEN None
                  ELSE Some([id |-> id, opening |-> opening, engines |-> players]),
         self |-> after ]

\* RoundRobin::match_complete: the returned TournamentState and the object
\* after the call.
RoundRobin_match_complete(self) ==
    LET cm == self.completed_matches + 1 IN
    [ ret  |-> IF IsSome(self.total_matches) /\ cm >= Unwrap(self.total_matches)
               THEN "Stop" ELSE "Continue",
      self |-> [self EXCEPT !.completed_matches = cm] ]

(***************************************************************************)
(* Runner::run (the scheduler thread) and runner_thread_main (the worker   *)
(* threads).  The two channels have capacity 0, so a transfer is one step  *)
(* taken by the sender and the receiver together.                          *)
(***************************************************************************)
MaxWorkers == 2
MaxIndex   == 4

Workers == 1..concurrency

\* Tournament::next through the wrapper chain (the wrappers forward it).
Tournament_next == RoundRobin_next(rr)

\* The early-stopping (SPRT) wrapper: forwards the result to the wrapped
\* tournament and returns Stop once the likelihood ratio has crossed a
\* boundary (`crossed`), the inner state otherwise.
Sprt_match_complete(inner, crossed) ==
    [inner EXCEPT !.ret = IF crossed THEN "Stop" ELSE @]

\* Tournament::match_complete through the wrapper chain.
Tournament_match_complete(crossed) ==
    IF sprt THEN Sprt_match_complete(RoundRobin_match_complete(rr), crossed)
            ELSE RoundRobin_match_complete(rr)

\* runner.rs 91: the lookahead is cleared once a worker took the ticket.
LookaheadAfterSend_Kept(t) == t
LookaheadAfterSend(t) == None

NonesDelivered == Cardinality({w \in Workers : nonesSent[w] > 0})

\* runner.rs 76: a ticket is requested only while no lookahead is held.
NeedsTicket_Always(t) == TRUE

NeedsTicket(t) == IsNone(t)

\* runner.rs 90: tournament.match_started(t.clone()).
StartedAfter_NotCalled(log, t) == log

StartedAfter(log, t) == Append(log, t)

\* runner.rs 75-78: top of the scheduler loop; asks for a lookahead ticket
\* when it holds none.
\* cli.rs 559-567, 624: no interval reports, or one every n >= 1 results.
\* The closure does not look at the kind of tournament, so the interval is
\* varied for the plain round robin only.
ReportIntervals == {None, Some(2)}

\* runner.rs 63-65: after match_count was bumped, is a report due?
IntervalReport_BeforeBump(ri, mc) == IsSome(ri) /\ (mc - 1) % Unwrap(ri) = 0

IntervalReport(ri, mc) == IsSome(ri) /\ mc % Unwrap(ri) = 0

SchedNext ==
    /\ spc = "loop"
    /\ IF NeedsTicket(ticket)
       THEN /\ IF IsSome(rr.total_matches) THEN TRUE
               ELSE rr.match_index < MaxIndex
            /\ ticket' = Tournament_next.ret
            /\ rr' = Tournament_next.self
            /\ rrLog' = Append(rrLog, Tournament_next.ret)
            /\ nextCalls' = nextCalls + 1
       ELSE UNCHANGED <<ticket, rr, rrLog, nextCalls>>
    /\ spc' = "select"
    /\ UNCHANGED <<rrState, sprt, concurrency, state, wpc, wticket, received,
                   started, results, nonesSent, completeCalls>>
    /\ UNCHANGED <<report_interval, match_count, reports>>
    /\ UNCHANGED NotRunner

\* runner.rs 82 / 87: the recv(recv_result) arm, taken together with the
\* send of worker w (runner.rs 129); match_complete decides the state.
SchedRecvResult(w) ==
    /\ spc = "select"
    /\ wpc[w] = "send"
    /\ \E crossed \in (IF sprt THEN BOOLEAN ELSE {FALSE}) :
         LET mc == Tournament_match_complete(crossed) IN
         /\ state' = mc.ret
         /\ rr' = mc.self
         /\ rrState' = Append(rrState, mc.ret)
         /\ spc' = IF mc.ret = "Stop" THEN "shutdown" ELSE "loop"
    /\ wpc' = [wpc EXCEPT ![w] = "recv"]
    /\ wticket' = [wticket EXCEPT ![w] = None]
    /\ results' = results \cup {<<w, Unwrap(wticket[w])>>}
    /\ match_count' = match_count + 1
    /\ reports' = IF IntervalReport(report_interval, match_count')
                  THEN Append(reports, match_count')
                  ELSE reports
    /\ UNCHANGED <<rrLog, sprt, concurrency, ticket, received, started,
                   nextCalls, nonesSent, completeCalls, report_interval>>
    /\ UNCHANGED NotRunner

\* runner.rs 83-89: the send(send_ticket, Some(t)) operation of the select
\* completes, together with the recv of worker w (runner.rs 122).  The
\* worker runs on from here while the scheduler is still inside the arm.
SchedSendTicket(w) ==
    /\ spc = "select"
    /\ IsSome(ticket)
    /\ wpc[w] = "recv"
    /\ wpc' = [wpc EXCEPT ![w] = "running"]
    /\ wticket' = [wticket EXCEPT ![w] = ticket]
    /\ received' = Append(received, <<w, Unwrap(ticket)>>)
    /\ spc' = "started"
    /\ UNCHANGED <<rrVars, sprt, concurrency, state, ticket, started, results,
                   nextCalls, nonesSent, completeCalls>>
    /\ UNCHANGED <<report_interval, match_count, reports>>
    /\ UNCHANGED NotRunner

\* runner.rs 90-91: the rest of the send arm: match_started(t), then the
\* lookahead is cleared and the loop starts over.
SchedMatchStarted ==
    /\ spc = "started"
    /\ started' = StartedAfter(started, Unwrap(ticket))
    /\ ticket' = LookaheadAfterSend(ticket)
    /\ spc' = "loop"
    /\ UNCHANGED <<rrVars, sprt, concurrency, state, wpc, wticket, received,
                   results, nextCalls, nonesSent, completeCalls>>
    /\ UNCHANGED <<report_interval, match_count, reports>>
    /\ UNCHANGED NotRunner

\* runner.rs 98-100: one send_ticket.send(None), received by worker w, which
\* leaves its loop (runner.rs 122).
SchedSendNone(w) ==
    /\ spc = "shutdown"
    /\ NonesDelivered < concurrency
    /\ wpc[w] = "recv"
    /\ wpc' = [wpc EXCEPT ![w] = "exited"]
    /\ nonesSent' = [nonesSent EXCEPT ![w] = @ + 1]
    /\ spc' = IF NonesDelivered + 1 = concurrency THEN "join" ELSE "shutdown"
    /\ UNCHANGED <<rrVars, sprt, concurrency, state, ticket, wticket,
                   received, started, results, nextCalls, completeCalls>>
    /\ UNCHANGED <<report_interval, match_count, reports>>
    /\ UNCHANGED NotRunner

\* runner.rs 102-106: join every worker, then tournament_complete.
SchedJoin ==
    /\ spc = "join"
    /\ \A w \in Workers : wpc[w] = "exited"
    /\ completeCalls' = completeCalls + 1
    /\ spc' = "done"
    /\ UNCHANGED <<rrVars, sprt, concurrency, state, ticket, wpc, wticket,
                   received, started, results, nextCalls, nonesSent>>
    /\ UNCHANGED <<report_interval, match_count, reports>>
    /\ UNCHANGED NotRunner

\* runner.rs 126-128: run_match returned Ok(result); the worker goes on to
\* send it.
WorkerFinish(w) ==
    /\ wpc[w] = "running"
    /\ wpc' = [wpc EXCEPT ![w] = "send"]
    /\ UNCHANGED <<rrVars, sprt, concurrency, spc, state, ticket, wticket,
                   received, started, results, nextCalls, nonesSent,
                   completeCalls>>
    /\ UNCHANGED <<report_interval, match_count, reports>>
    /\ UNCHANGED NotRunner

\* runner.rs 126: run_match returned Err and unwrap() ends the thread.
WorkerPanic(w) ==
    /\ wpc[w] = "running"
    /\ wpc' = [wpc EXCEPT ![w] = "panicked"]
    /\ UNCHANGED <<rrVars, sprt, concurrency, spc, state, ticket, wticket,
                   received, started, results, nextCalls, nonesSent,
                   completeCalls>>
    /\ UNCHANGED <<report_interval, match_count, reports>>
    /\ UNCHANGED NotRunner

RunnerStep ==
    \/ SchedNext
    \/ \E w \in Workers : SchedRecvResult(w)
    \/ \E w \in Workers : SchedSendTicket(w)
    \/ SchedMatchStarted
    \/ \E w \in Workers : SchedSendNone(w)
    \/ SchedJoin
    \/ \E w \in Workers : WorkerFinish(w)
    \/ \E w \in Workers : WorkerPanic(w)

RunnerIdle ==
    /\ sprt = FALSE
    /\ concurrency = 1
    /\ spc = "done"
    /\ state = "Continue"
    /\ ticket = None
    /\ wpc = [w \in {1} |-> "exited"]
    /\ wticket = [w \in {1} |-> None]
    /\ received = <<>>
    /\ started = <<>>
    /\ results = {}
    /\ nextCalls = 0
    /\ nonesSent = [w \in {1} |-> 0]
    /\ completeCalls = 0
    /\ report_interval = None
    /\ match_count = 0
    /\ reports = <<>>

RRIdle ==
    /\ rr = RoundRobin_new(2, 1, None)
    /\ rrLog = <<>>
    /\ rrState = <<>>

(***************************************************************************)
(* Time control clock (src/tc.rs).  Durations are whole milliseconds.      *)
(***************************************************************************)
MaxDur == 2

TcNone        == [k |-> "None",     a |-> 0, b |-> 0]
TcNodes(n)    == [k |-> "Nodes",    a |-> n, b |-> 0]
TcMoveTime(d) == [k |-> "MoveTime", a |-> d, b |-> 0]
TcByoyomi(base, byoyomi)   == [k |-> "Byoyomi", a |-> base, b |-> byoyomi]
TcFischer(base, increment) == [k |-> "Fischer", a |-> base, b |-> increment]

\* EngineTime::new
EngineTime_new(tc, margin) ==
    [ tc        |-> tc,
      margin    |-> margin,
      remaining |-> CASE tc.k \in {"None", "MoveTime", "Nodes"} -> 0
                      [] tc.k = "Byoyomi" -> tc.a
                      [] tc.k = "Fischer" -> tc.a + tc.b ]

\* tc.rs 180-186: the MoveTime arm of step.
StepMoveTime_AtLimit(self, duration) ==
    [ret |-> IF duration >= self.tc.a THEN "TimeElapsed" ELSE "Ok",
     self |-> self]

StepMoveTime(self, duration) ==
    [ret |-> IF duration > self.tc.a THEN "TimeElapsed" ELSE "Ok",
     self |-> self]

\* tc.rs 187-201: the Byoyomi arm of step.
StepByoyomi_WholeDuration(self, duration) ==
    LET rem  == IF self.remaining < duration
                THEN 0 ELSE self.remaining - duration
    IN [ret |-> IF duration > self.tc.b THEN "TimeElapsed" ELSE "Ok",
        self |-> [self EXCEPT !.remaining = rem]]

StepByoyomi(self, duration) ==
    LET over == IF self.remaining < duration
                THEN duration - self.remaining ELSE 0
        rem  == IF self.remaining < duration
                THEN 0 ELSE self.remaining - duration
    IN [ret |-> IF over > self.tc.b THEN "TimeElapsed" ELSE "Ok",
        self |-> [self EXCEPT !.remaining = rem]]

\* tc.rs 202-210: the Fischer arm of step.
StepFischer_IncrementFirst(self, duration) ==
    IF self.remaining + self.tc.b < duration
    THEN [ret |-> "TimeElapsed", self |-> [self EXCEPT !.remaining = 0]]
    ELSE [ret |-> "Ok",
          self |-> [self EXCEPT !.remaining = (@ + self.tc.b) - duration]]

StepFischer(self, duration) ==
    IF self.remaining < duration
    THEN [ret |-> "TimeElapsed", self |-> [self EXCEPT !.remaining = 0]]
    ELSE [ret |-> "Ok",
          self |-> [self EXCEPT !.remaining = (@ - duration) + self.tc.b]]

\* EngineTime::step: the StepResult and the clock after the charge.
EngineTime_step(self, duration) ==
    CASE self.tc.k \in {"None", "Nodes"} -> [ret |-> "Ok", self |-> self]
      [] self.tc.k = "MoveTime" -> StepMoveTime(self, duration)
      [] self.tc.k = "Byoyomi"  -> StepByoyomi(self, duration)
      [] self.tc.k = "Fischer"  -> StepFischer(self, duration)

\* EngineTime::bestmove_timeout: entitlement plus margin, no deadline for
\* None and Nodes.
EngineTime_bestmove_timeout(self) ==
    CASE self.tc.k \in {"None", "Nodes"} -> None
      [] self.tc.k = "MoveTime" -> Some(self.tc.a + self.margin)
      [] self.tc.k = "Byoyomi"  -> Some(self.remaining + self.tc.b + self.margin)
      [] self.tc.k = "Fischer"  -> Some(self.remaining + self.margin)

\* ---- a clock on its own ----
MaxBase    == 2
MaxPeriod  == 2
MaxStep    == 5
MaxCharges == 4

\* Small time controls of every kind, and the two clocks of the worked
\* examples (base 1000 ms + 100 ms; base 2000 ms, byoyomi 1000 ms).
ClockTimeControls ==
    {TcNone, TcNodes(1)}
    \cup {TcMoveTime(d) : d \in 0..MaxPeriod}
    \cup {TcByoyomi(base, y) : base \in 0..MaxBase, y \in 0..MaxPeriod}
    \cup {TcFischer(base, i) : base \in 0..MaxBase, i \in 0..MaxPeriod}
    \cup {TcFischer(1000, 100), TcByoyomi(2000, 1000)}

ClockDurations == (0..MaxStep) \cup {400, 500, 900, 1200, 1500}

\* One call of step(duration) on the clock.
ClockStep(duration) ==
    /\ charges < MaxCharges
    /\ clock' = EngineTime_step(clock, duration).self
    /\ charge' = Some([d |-> duration, before |-> clock,
                       ret |-> EngineTime_step(clock, duration).ret])
    /\ charges' = charges + 1
    /\ UNCHANGED NotClock

ClockIdle ==
    /\ clock = EngineTime_new(TcNone, 0)
    /\ charge = None
    /\ charges = 0

\* ---- the `go` arguments ----
\* shogi::Color, its negation and to_index.
Color == {"Sente", "Gote"}
Not(c) == IF c = "Sente" THEN "Gote" ELSE "Sente"
to_index(c) == IF c = "Sente" THEN 1 ELSE 2

\* The text is a sequence of tokens: words, decimal numbers and single
\* spaces, in the order format!() writes them.
Word(w) == [t |-> "word", s |-> w,   n |-> 0]
Num(x)  == [t |-> "num",  s |-> "",  n |-> x]
Space   == [t |-> "sp",   s |-> " ", n |-> 0]

\* tc.rs 216-219: the colour letters (stm, nstm).
Letters(color) == IF color = "Sente" THEN <<"b", "w">> ELSE <<"w", "b">>

\* tc.rs 220-223: (stm_time, nstm_time).
SideTimes_Unswapped(color, sente_time, gote_time) == <<sente_time, gote_time>>

SideTimes(color, sente_time, gote_time) ==
    IF color = "Sente" THEN <<sente_time, gote_time>>
                       ELSE <<gote_time, sente_time>>

\* tc.rs 225-239: stm_part.
StmPart(l, t) ==
    CASE t.tc.k = "None"     -> <<>>
      [] t.tc.k = "MoveTime" -> <<Word(l \o "time"), Space, Num(0), Space,
                                  Word("byoyomi"), Space, Num(t.tc.a)>>
      [] t.tc.k = "Nodes"    -> <<Word("nodes"), Space, Num(t.tc.a)>>
      [] t.tc.k = "Byoyomi"  -> <<Word(l \o "time"), Space, Num(t.remaining),
                                  Space, Word("byoyomi"), Space, Num(t.tc.b)>>
      [] t.tc.k = "Fischer"  -> <<Word(l \o "time"), Space, Num(t.remaining),
                                  Space, Word(l \o "inc"), Space, Num(t.tc.b)>>

\* tc.rs 241-254: nstm_part.
NstmPart(l, t) ==
    CASE t.tc.k \in {"None", "MoveTime", "Nodes"} -> <<>>
      [] t.tc.k = "Byoyomi"  -> <<Space, Word(l \o "time"), Space,
                                  Num(t.remaining)>>
      [] t.tc.k = "Fischer"  -> <<Space, Word(l \o "time"), Space,
                                  Num(t.remaining), Space, Word(l \o "inc"),
                                  Space, Num(t.tc.b)>>

\* tc::to_usi_string
to_usi_string(color, sente_time, gote_time) ==
    LET times == SideTimes(color, sente_time, gote_time)
    IN StmPart(Letters(color)[1], times[1])
       \o NstmPart(Letters(color)[2], times[2])

MaxGoCharges == 2

\* One time control of each kind, with the clocks of the worked examples
\* (60000 and 59000 ms left under +500 ms; 100000 and 90000 ms left under
\* byoyomi 5000 ms), and a second Fischer control.
GoTimeControls ==
    {TcNone, TcNodes(7), TcMoveTime(3000), TcByoyomi(100000, 5000),
     TcFischer(59500, 500), TcFischer(1000, 100)}

GoDurations == {0, 1500, 10000}

\* runner.rs 266: the clock of colour c is charged for a move.
GoCharge(c, d) ==
    /\ IsNone(goArgs)
    /\ goCharges < MaxGoCharges
    /\ goTimes' = [goTimes EXCEPT
                      ![to_index(c)] = EngineTime_step(goTimes[to_index(c)], d).self]
    /\ goCharges' = goCharges + 1
    /\ UNCHANGED goArgs
    /\ UNCHANGED NotGo

\* runner.rs 248-251: the arguments of `go` for the side to move.
GoFormat(color) ==
    /\ goArgs' = Some([color |-> color,
                       args  |-> to_usi_string(color, goTimes[1], goTimes[2])])
    /\ UNCHANGED <<goTimes, goCharges>>
    /\ UNCHANGED NotGo

GoIdle ==
    /\ goTimes = <<EngineTime_new(TcNone, 0), EngineTime_new(TcNone, 0)>>
    /\ goArgs = None
    /\ goCharges = 0

(***************************************************************************)
(* Match driver (src/runner.rs: do_adjudication, run_match).               *)
(***************************************************************************)
MaxPlies == 3

Outcome(k, c) == [k |-> k, c |-> c]
Undetermined  == Outcome("Undetermined", "-")
is_determined(o) == o.k # "Undetermined"

ScoreNone   == [k |-> "None", v |-> 0]
Cp(v)       == [k |-> "Cp",   v |-> v]
Mate(v)     == [k |-> "Mate", v |-> v]
Abs(x)      == IF x < 0 THEN -x ELSE x

\* iter().rev().take_while(..).count(), for the sequence `hit` of the
\* predicate's values on the moves.
TrailingRun(hit) ==
    CHOOSE n \in 0..Len(hit) :
        /\ \A i \in (Len(hit) - n + 1)..Len(hit) : hit[i]
        /\ n = Len(hit) \/ ~hit[Len(hit) - n]

\* iter().filter(|m| m.stm == Some(stm))
MovesOf(moves, s) == SelectSeq(moves, LAMBDA m : m.stm = s)

\* runner.rs 154-157
DrawScore_Signed(m, draw) == m.score.k = "Cp" /\ m.score.v <= draw.score

DrawScore(m, draw) == m.score.k = "Cp" /\ Abs(m.score.v) <= draw.score

\* runner.rs 171-175
LosingScore_Strict(m, resign) ==
    \/ m.score.k = "Cp"   /\ m.score.v < -resign.score
    \/ m.score.k = "Mate" /\ m.score.v < 0

LosingScore(m, resign) ==
    \/ m.score.k = "Cp"   /\ m.score.v <= -resign.score
    \/ m.score.k = "Mate" /\ m.score.v < 0

\* runner.rs 189-205
TwoSidedScore_MoverOnly(m, s, resign) ==
    \/ m.score.k = "Cp"   /\ (IF m.stm = s THEN m.score.v <= -resign.score
                                          ELSE TRUE)
    \/ m.score.k = "Mate" /\ (IF m.stm = s THEN m.score.v < 0
                                          ELSE TRUE)

TwoSidedScore(m, s, resign) ==
    \/ m.score.k = "Cp"   /\ (IF m.stm = s THEN m.score.v <= -resign.score
                                          ELSE m.score.v >= resign.score)
    \/ m.score.k = "Mate" /\ (IF m.stm = s THEN m.score.v < 0
                                          ELSE m.score.v > 0)

\* runner.rs 142-146
MoveLimitRule(adj, mr) ==
    IF IsSome(adj.max_moves) /\ Len(mr.moves) >= Unwrap(adj.max_moves)
    THEN Outcome("DrawByMoveLimit", "-") ELSE mr.outcome

\* runner.rs 148-162
DrawRule(adj, mr) ==
    IF /\ IsSome(adj.draw)
       /\ Len(mr.moves) >= Unwrap(adj.draw).move_number
       /\ TrailingRun([i \in 1..Len(mr.moves) |->
                          DrawScore(mr.moves[i], Unwrap(adj.draw))])
             >= Unwrap(adj.draw).move_count
    THEN Outcome("DrawByAdjudication", "-") ELSE mr.outcome

\* runner.rs 164-181
ResignRule(s, adj, mr) ==
    IF /\ IsSome(adj.resign)
       /\ ~Unwrap(adj.resign).two_sided
       /\ TrailingRun([i \in 1..Len(MovesOf(mr.moves, s)) |->
                          LosingScore(MovesOf(mr.moves, s)[i], Unwrap(adj.resign))])
             >= Unwrap(adj.resign).move_count
    THEN Outcome("WinByAdjudication", Not(s)) ELSE mr.outcome

\* runner.rs 183-211
TwoSidedResignRule(s, adj, mr) ==
    IF /\ IsSome(adj.resign)
       /\ Unwrap(adj.resign).two_sided
       /\ TrailingRun([i \in 1..Len(mr.moves) |->
                          TwoSidedScore(mr.moves[i], s, Unwrap(adj.resign))])
             >= Unwrap(adj.resign).move_count
    THEN Outcome("WinByAdjudication", Not(s)) ELSE mr.outcome

\* do_adjudication: the match result after the call.
do_adjudication_Unguarded(s, adj, mr) ==
    LET r1 == [mr EXCEPT !.outcome = MoveLimitRule(adj, mr)]
        r2 == [r1 EXCEPT !.outcome = DrawRule(adj, r1)]
        r3 == [r2 EXCEPT !.outcome = ResignRule(s, adj, r2)]
        r4 == [r3 EXCEPT !.outcome = TwoSidedResignRule(s, adj, r3)]
    IN r4
do_adjudication(s, adj, mr) ==
    IF is_determined(mr.outcome) THEN mr
    ELSE LET r1 == [mr EXCEPT !.outcome = MoveLimitRule(adj, mr)]
             r2 == [r1 EXCEPT !.outcome = DrawRule(adj, r1)]
             r3 == [r2 EXCEPT !.outcome = ResignRule(s, adj, r2)]
             r4 == [r3 EXCEPT !.outcome = TwoSidedResignRule(s, adj, r3)]
         IN r4

\* ---- do_adjudication on its own ----
MaxAdjMoves == 3

AdjScores == {ScoreNone, Cp(-2), Cp(-1), Cp(1), Cp(2), Mate(-1), Mate(1)}

AdjResignChoices ==
    {None} \cup {Some([move_count |-> k, score |-> sc, two_sided |-> ts]) :
                    k \in 1..3, sc \in {1, 2}, ts \in BOOLEAN}

AdjDrawChoices ==
    {None} \cup {Some([move_number |-> mn, move_count |-> k, score |-> sc]) :
                    mn \in {0, 3}, k \in 1..2, sc \in {1, 2}}

AdjChoices ==
    [max_moves : {None, Some(2)},
     draw      : AdjDrawChoices,
     resign    : AdjResignChoices]

\* runner.rs 263-271: colour c has moved with the last reported `score`;
\* the move is recorded and do_adjudication(c, ..) is called on a result
\* that is Undetermined so far.
AdjPly(c, score) ==
    /\ adjOut = Undetermined
    /\ Len(adjMoves) < MaxAdjMoves
    /\ IF Len(adjMoves) = 0 THEN TRUE ELSE c = Not(adjMoves[Len(adjMoves)].stm)
    /\ adjMoves' = Append(adjMoves, [stm |-> c, score |-> score])
    /\ adjOut' = do_adjudication(c, adjOpts,
                     [outcome |-> Undetermined,
                      moves   |-> Append(adjMoves, [stm |-> c, score |-> score])]
                   ).outcome
    /\ adjStm' = c
    /\ UNCHANGED adjOpts
    /\ UNCHANGED NotAdj

\* The process was aborted by a failed assert!.
Aborted == Outcome("Aborted", "-")

\* runner.rs 179, 209: a resignation rule whose condition holds asserts that
\* stm is the colour of the last recorded move.
AssertFails(s, adj, mr) ==
    /\ ~is_determined(mr.outcome)
    /\ s # mr.moves[Len(mr.moves)].stm
    /\ \/ ResignRule(s, adj, [mr EXCEPT !.outcome = Undetermined]) # Undetermined
       \/ TwoSidedResignRule(s, adj, [mr EXCEPT !.outcome = Undetermined]) # Undetermined

\* do_adjudication called directly, the way the unit tests call it
\* (runner.rs 331-336), with the colour that did not make the last move.
AdjCallOther(c, score) ==
    /\ adjOut = Undetermined
    /\ Len(adjMoves) < MaxAdjMoves
    /\ IF Len(adjMoves) = 0 THEN TRUE ELSE c = Not(adjMoves[Len(adjMoves)].stm)
    /\ LET mr == [outcome |-> Undetermined,
                  moves   |-> Append(adjMoves, [stm |-> c, score |-> score])]
       IN /\ adjMoves' = mr.moves
          /\ adjOut' = IF AssertFails(Not(c), adjOpts, mr) THEN Aborted
                       ELSE do_adjudication(Not(c), adjOpts, mr).outcome
    /\ adjStm' = Not(c)
    /\ UNCHANGED adjOpts
    /\ UNCHANGED NotAdj

AdjIdle ==
    /\ adjOpts = [max_moves |-> None, draw |-> None, resign |-> None]
    /\ adjMoves = <<>>
    /\ adjOut = Undetermined
    /\ adjStm = "-"

\* Inputs of a match.
TimeControls == {TcNone, TcMoveTime(1), TcByoyomi(1, 1), TcFischer(0, 1)}
Margins      == {1}
Scores       == {ScoreNone, Cp(-1), Cp(1), Mate(-1)}
MaxMovesChoices == {None, Some(2)}
DrawChoices   == {None, Some([move_number |-> 0, move_count |-> 1, score |-> 1])}
ResignChoices == {None,
                  Some([move_count |-> 1, score |-> 1, two_sided |-> FALSE]),
                  Some([move_count |-> 2, score |-> 1, two_sided |-> TRUE])}

\* Game::do_move: what the game module reports for the move just played.
GameOutcomes ==
    {Undetermined, Outcome("DrawByRepetition", "-")}
    \cup {Outcome(k, c) : k \in {"WinByCheckmate", "WinByIllegalMove",
                                 "WinByResignation"}, c \in Color}

\* runner.rs 284: the loop returns once the outcome is determined.
MatchReturns_AfterTwoPlies(mr) == Len(mr.moves) >= 2 \/ is_determined(mr.outcome)
MatchReturns(mr) == is_determined(mr.outcome)

\* runner.rs 267-269: a TimeElapsed charge overrides the outcome.
ClockOverride_OtherSide(time_outcome, s, mr) ==
    IF time_outcome = "TimeElapsed"
    THEN [mr EXCEPT !.outcome = Outcome("LossByClock", Not(s))] ELSE mr
ClockOverride(time_outcome, s, mr) ==
    IF time_outcome = "TimeElapsed"
    THEN [mr EXCEPT !.outcome = Outcome("LossByClock", s)] ELSE mr

\* runner.rs 275
TimeoutOutcome_AsDisconnection(s) == Outcome("LossByDisconnection", s)
TimeoutOutcome(s) == Outcome("LossByClock", s)

\* runner.rs 279
DisconnectedOutcome(s) == Outcome("LossByDisconnection", s)

\* runner.rs 242: the deadline of the bestmove wait, taken from the clock of
\* the side to move before `position` and `go` are written.
BestmoveDeadline_OtherSide(et, s) ==
    EngineTime_bestmove_timeout(et[to_index(Not(s))])

BestmoveDeadline(et, s) == EngineTime_bestmove_timeout(et[to_index(s)])

\* What happened on a ply: the event, the side that was to move, the result
\* of the clock charge, the outcome reported by the game module, the
\* outcome after the clock charge (before adjudication) and the deadline
\* given to wait_for_bestmove.
NoPly == [ev |-> "none", stm |-> "-", time_outcome |-> "-",
          game |-> Undetermined, charged |-> Undetermined,
          deadline |-> None, duration |-> 0]

Finish(mr) ==
    IF MatchReturns(mr) THEN ret' = "Ok" /\ mpc' = "returned"
                        ELSE UNCHANGED <<ret, mpc>>

\* The colour played by the i-th engine of the ticket (runner.rs 240).
ColorOf(i) == IF i = 1 THEN "Sente" ELSE "Gote"

\* runner.rs 240: the engine that is written to on a ply of side s.
current_engine_Waiting(s) == to_index(Not(s))

current_engine(s) == to_index(s)

\* runner.rs 246-252: what is written to engine e on one ply.
PlyCommands_Ready(e) ==
    << <<e, "isready">>, <<e, "readyok">>, <<e, "position">>, <<e, "go">> >>

PlyCommands(e) == << <<e, "position">>, <<e, "go">> >>

\* runner.rs 232-235 with engine.rs 192-222: what has passed between
\* run_match and engine e when isready / usinewgame ended as r.
ReadyExchange(e, r) ==
    CASE r = "WriteErr" -> <<>>
      [] r \in {"Timeout", "Disconnected", "Err"} -> << <<e, "isready">> >>
      [] r = "NewGameErr" -> << <<e, "isready">>, <<e, "readyok">> >>
      [] OTHER -> << <<e, "isready">>, <<e, "readyok">>, <<e, "usinewgame">> >>

ReadyResults == {"Ok", "WriteErr", "Timeout", "Disconnected", "Err", "NewGameErr"}

\* The iteration of the loop at runner.rs 232 that comes next.
ReadyIndex == 1 + Len(SelectSeq(sent, LAMBDA x : x[2] = "usinewgame"))

\* runner.rs 232-237: one turn of the loop over the two engines of the
\* ticket: isready, the wait for readyok (5 s, engine.rs 192-216) and
\* usinewgame.  isready turns Timeout and Disconnected into io errors, and
\* every io error is returned with `?`.
MatchStart(r) ==
    /\ mpc = "start"
    /\ sent' = sent \o ReadyExchange(ReadyIndex, r)
    /\ IF r = "Ok"
       THEN /\ mpc' = IF ReadyIndex = 2 THEN "loop" ELSE "start"
            /\ UNCHANGED <<ret, last>>
       ELSE /\ mpc' = "returned"
            /\ ret' = "Err"
            /\ last' = [NoPly EXCEPT !.ev = "Ready" \o r,
                                     !.stm = ColorOf(ReadyIndex)]
    /\ UNCHANGED <<adjudication, engine_time, stm, match_result>>
    /\ UNCHANGED NotMatch

\* engine.rs 236-237, runner.rs 264: the record of the move of side s.
MoveRecordOf_Other(s, score) == [stm |-> Not(s), score |-> score]

MoveRecordOf(s, score) == [stm |-> s, score |-> score]

\* runner.rs 257-258: the clock of the side to move is charged the duration.
Charge_LessMargin(et, s, duration) ==
    LET c == et[to_index(s)]
    IN EngineTime_step(c, IF duration > c.margin THEN duration - c.margin ELSE 0)

Charge(et, s, duration) == EngineTime_step(et[to_index(s)], duration)

\* runner.rs 258: step() works on engine_time[stm.to_index()] in place.
ChargedClocks_Both(et, s, c) == <<c, c>>

ChargedClocks(et, s, c) == [et EXCEPT ![to_index(s)] = c]

\* runner.rs 239-272, 284: a ply on which `bestmove` arrived after `duration`
\* with the last reported `score`, and the game module answered `g`.
PlyOk(score, duration, g) ==
    /\ mpc = "loop"
    /\ Len(match_result.moves) < MaxPlies
    /\ LET step == Charge(engine_time, stm, duration)
           mr1  == [outcome |-> g,
                    moves   |-> Append(match_result.moves,
                                       MoveRecordOf(stm, score))]
           mr2  == ClockOverride(step.ret, stm, mr1)
           mr3  == do_adjudication(stm, adjudication, mr2)
       IN /\ engine_time' = ChargedClocks(engine_time, stm, step.self)
          /\ match_result' = mr3
          /\ last' = [ev |-> "Ok", stm |-> stm, time_outcome |-> step.ret,
                      game |-> g, charged |-> mr2.outcome,
                      deadline |-> BestmoveDeadline(engine_time, stm),
                      duration |-> duration]
          /\ Finish(mr3)
    /\ stm' = Not(stm)
    /\ sent' = sent \o PlyCommands(current_engine(stm))
    /\ UNCHANGED adjudication
    /\ UNCHANGED NotMatch

\* runner.rs 274-276, 284: the timed reader returned Timeout.
PlyTimeout ==
    /\ mpc = "loop"
    /\ IsSome(BestmoveDeadline(engine_time, stm))
    /\ LET mr == [match_result EXCEPT !.outcome = TimeoutOutcome(stm)]
       IN /\ match_result' = mr
          /\ Finish(mr)
    /\ last' = [NoPly EXCEPT !.ev = "Timeout", !.stm = stm,
                             !.deadline = BestmoveDeadline(engine_time, stm)]
    /\ sent' = sent \o PlyCommands(current_engine(stm))
    /\ UNCHANGED <<adjudication, engine_time, stm>>
    /\ UNCHANGED NotMatch

\* runner.rs 278-280, 284: the timed reader returned Disconnected.
PlyDisconnected ==
    /\ mpc = "loop"
    /\ LET mr == [match_result EXCEPT !.outcome = DisconnectedOutcome(stm)]
       IN /\ match_result' = mr
          /\ Finish(mr)
    /\ last' = [NoPly EXCEPT !.ev = "Disconnected", !.stm = stm,
                             !.deadline = BestmoveDeadline(engine_time, stm)]
    /\ sent' = sent \o PlyCommands(current_engine(stm))
    /\ UNCHANGED <<adjudication, engine_time, stm>>
    /\ UNCHANGED NotMatch

\* runner.rs 246-252, 255: an io error while writing position / go (n of
\* the ply's commands were written before it) or while waiting for bestmove
\* is returned.
PlyErr(n) ==
    /\ mpc = "loop"
    /\ mpc' = "returned"
    /\ ret' = "Err"
    /\ last' = [NoPly EXCEPT !.ev = "Err", !.stm = stm,
                             !.deadline = BestmoveDeadline(engine_time, stm)]
    /\ sent' = sent \o SubSeq(PlyCommands(current_engine(stm)), 1, n)
    /\ UNCHANGED <<adjudication, engine_time, stm, match_result>>
    /\ UNCHANGED NotMatch

MatchStep ==
    \/ \E r \in ReadyResults : MatchStart(r)
    \/ \E score \in Scores, duration \in 0..MaxDur, g \in GameOutcomes :
          PlyOk(score, duration, g)
    \/ PlyTimeout
    \/ PlyDisconnected
    \/ \E n \in 0..Len(PlyCommands(1)) : PlyErr(n)

MatchInit ==
    /\ mpc = "start"
    /\ adjudication \in [max_moves : MaxMovesChoices, draw : DrawChoices,
                         resign : ResignChoices]
    /\ engine_time \in {<<EngineTime_new(t0, m0), EngineTime_new(t1, m1)>> :
                          t0 \in TimeControls, t1 \in TimeControls,
                          m0 \in Margins, m1 \in Margins}
    /\ stm \in Color
    /\ match_result = [outcome |-> Undetermined, moves |-> <<>>]
    /\ ret = "none"
    /\ last = NoPly
    /\ sent = <<>>

MatchIdle ==
    /\ mpc = "returned"
    /\ adjudication = [max_moves |-> None, draw |-> None, resign |-> None]
    /\ engine_time = <<EngineTime_new(TcNone, 0), EngineTime_new(TcNone, 0)>>
    /\ stm = "Sente"
    /\ match_result = [outcome |-> Undetermined, moves |-> <<>>]
    /\ ret = "none"
    /\ last = NoPly
    /\ sent = <<>>

(***************************************************************************)
(* Timed reader (src/engine.rs: read_with_timeout, process_read_buf).      *)
(* The child's output is a stream of tokens: "b" stands for the word       *)
(* `bestmove`, "i" for the word `info`, "CR" for a carriage return, "LF"   *)
(* for the line feed.  Time is counted in milliseconds.                    *)
(***************************************************************************)
MaxBytes   == 3
MaxTime    == 4
MaxTimeout == 2

Bytes    == {"b", "i", "CR", "LF"}
Timeouts == {None} \cup {Some(d) : d \in 0..MaxTimeout}

\* memchr(b'\n', buf): the first position of a line feed, 0 when there is none.
memchr(buf) ==
    IF \E i \in 1..Len(buf) : buf[i] = "LF"
    THEN CHOOSE i \in 1..Len(buf) :
            buf[i] = "LF" /\ \A j \in 1..(i - 1) : buf[j] # "LF"
    ELSE 0

\* The callback of wait_for_bestmove (engine.rs 238-321): Stop on a line whose
\* first word is `bestmove`.
Callback(line) ==
    IF Len(line) >= 1 /\ line[1] = "b" THEN "Stop" ELSE "Continue"

\* engine.rs 491: read_buf.drain(0..(i + 1)) leaves the bytes after the line.
Drain_Whole(buf, i) == <<>>

Drain(buf, i) == SubSeq(buf, i + 1, Len(buf))

\* engine.rs 491-501: the drained bytes, line feed included, are the line.
LineOf_Chomped(buf, i) == SubSeq(buf, 1, i - 1)

LineOf(buf, i) == SubSeq(buf, 1, i)

\* process_read_buf: drains complete lines from the buffer into the callback
\* until it answers Stop; `out` collects the lines handed over.
RECURSIVE process_read_buf(_, _)
process_read_buf(buf, out) ==
    LET i == memchr(buf) IN
    IF i = 0 THEN [ret |-> "Continue", buf |-> buf, lines |-> out]
    ELSE LET line == LineOf(buf, i)
             rest == Drain(buf, i)
         IN IF Callback(line) = "Stop"
            THEN [ret |-> "Stop", buf |-> rest, lines |-> Append(out, line)]
            ELSE process_read_buf(rest, Append(out, line))

Written == Len(stream)

\* engine.rs 335-345: a call of read_with_timeout begins.
ReaderCall(t) ==
    /\ rdpc \in {"idle", "done"}
    /\ rdpc' = "poll"
    /\ timeout' = t
    /\ lines' = <<>>
    /\ rdres' = "none"
    /\ elapsed' = 0
    /\ polled' = 0
    /\ UNCHANGED <<pipe, childOpen, read_buf>>
    /\ UNCHANGED <<stream, delivered>>
    /\ UNCHANGED NotReader

\* The child writes one more token to its stdout.
ChildWrite(b) ==
    /\ childOpen
    /\ Written < MaxBytes
    /\ pipe' = Append(pipe, b)
    /\ stream' = Append(stream, b)
    /\ UNCHANGED <<rdpc, timeout, childOpen, read_buf, lines, rdres, elapsed,
                   polled, delivered>>
    /\ UNCHANGED NotReader

\* The child closes its stdout (or exits).
ChildClose ==
    /\ childOpen
    /\ childOpen' = FALSE
    /\ UNCHANGED <<rdpc, timeout, pipe, read_buf, lines, rdres, elapsed,
                   polled>>
    /\ UNCHANGED <<stream, delivered>>
    /\ UNCHANGED NotReader

\* One millisecond passes while poll() is blocked: nothing to read, the
\* child still there, the poll timeout not yet reached.
Tick ==
    /\ rdpc = "poll"
    /\ pipe = <<>> /\ childOpen
    /\ IF IsNone(timeout) THEN TRUE ELSE polled < Unwrap(timeout)
    /\ elapsed < MaxTime
    /\ elapsed' = elapsed + 1
    /\ polled' = polled + 1
    /\ UNCHANGED <<rdpc, timeout, pipe, childOpen, read_buf, lines, rdres>>
    /\ UNCHANGED <<stream, delivered>>
    /\ UNCHANGED NotReader

\* engine.rs 352, 363-365: poll() returns 0 after timeout_ms.
PollTimeout ==
    /\ rdpc = "poll"
    /\ pipe = <<>> /\ childOpen
    /\ IsSome(timeout) /\ polled >= Unwrap(timeout)
    /\ rdpc' = "done"
    /\ rdres' = "Timeout"
    /\ UNCHANGED <<timeout, pipe, childOpen, read_buf, lines, elapsed, polled>>
    /\ UNCHANGED <<stream, delivered>>
    /\ UNCHANGED NotReader

\* engine.rs 353-356: poll() fails with EINTR / EAGAIN and is called again.
PollInterrupted ==
    /\ rdpc = "poll"
    /\ polled > 0
    /\ polled' = 0
    /\ UNCHANGED <<rdpc, timeout, pipe, childOpen, read_buf, lines, rdres,
                   elapsed>>
    /\ UNCHANGED <<stream, delivered>>
    /\ UNCHANGED NotReader

\* engine.rs 357, 378: poll() or read() fails with another error.
ReaderIoError ==
    /\ rdpc = "poll"
    /\ rdpc' = "done"
    /\ rdres' = "Err"
    /\ UNCHANGED <<timeout, pipe, childOpen, read_buf, lines, elapsed, polled>>
    /\ UNCHANGED <<stream, delivered>>
    /\ UNCHANGED NotReader

\* engine.rs 367-394: stdout is readable; the available bytes are appended to
\* read_buf and the complete lines are handed to the callback.
ReadReady ==
    /\ rdpc = "poll"
    /\ pipe # <<>>
    /\ LET p == process_read_buf(read_buf \o pipe, lines) IN
         /\ read_buf' = p.buf
         /\ lines' = p.lines
         /\ delivered' = delivered \o SubSeq(p.lines, Len(lines) + 1, Len(p.lines))
         /\ IF p.ret = "Stop"
            THEN rdpc' = "done" /\ rdres' = "Ok" /\ polled' = polled
            ELSE rdpc' = "poll" /\ rdres' = rdres /\ polled' = 0
    /\ pipe' = <<>>
    /\ UNCHANGED <<timeout, childOpen, elapsed, stream>>
    /\ UNCHANGED NotReader

\* engine.rs 377-388: stdout is at end of file, read() returns 0.
ReadEof ==
    /\ rdpc = "poll"
    /\ pipe = <<>> /\ ~childOpen
    /\ rdpc' = "done"
    /\ rdres' = "Disconnected"
    /\ UNCHANGED <<timeout, pipe, childOpen, read_buf, lines, elapsed, polled>>
    /\ UNCHANGED <<stream, delivered>>
    /\ UNCHANGED NotReader

ReaderStep ==
    \/ \E t \in Timeouts : ReaderCall(t)
    \/ \E b \in Bytes : ChildWrite(b)
    \/ ChildClose
    \/ Tick
    \/ PollTimeout
    \/ PollInterrupted
    \/ ReaderIoError
    \/ ReadReady
    \/ ReadEof

ReaderInit ==
    /\ rdpc = "idle"
    /\ timeout = None
    /\ pipe = <<>>
    /\ childOpen = TRUE
    /\ read_buf = <<>>
    /\ lines = <<>>
    /\ rdres = "none"
    /\ elapsed = 0
    /\ polled = 0
    /\ stream = <<>>
    /\ delivered = <<>>

(***************************************************************************)
(* Engine start-up (src/engine.rs: EngineBuilder::init).  A line is the    *)
(* sequence of its words.                                                  *)
(***************************************************************************)
MaxOptions   == 2
MaxInitLines == 3

OptionPairs == {<<"Threads", "1">>, <<"USI_Hash", "16">>}
OptionLists == UNION {[1..n -> OptionPairs] : n \in 0..MaxOptions}
Builders    == [name : {None, Some(<<"Alpha">>)}, cmd : {<<"./engine">>},
                usi_options : OptionLists]

\* What an engine may print while usiok is awaited.
InitLines == {<<"id", "name", "Foo">>, <<"id", "name", "Bar", "2">>,
              <<"id", "author", "Foo">>, <<"id">>, <<"info">>, <<"usiok">>}

\* engine.rs 129: the text of one setoption line.
SetOptionLine(kv) == <<"setoption", "name", kv[1], "value", kv[2]>>

\* engine.rs 83-101: the callback of the wait for usiok.
UsiCallback(line) == IF line[1] = "usiok" THEN "Stop" ELSE "Continue"

\* engine.rs 86-92: an `id name` line sets usi_name to the rest of the line.
UsiNameAfter(cur, line) ==
    IF Len(line) >= 3 /\ line[1] = "id" /\ line[2] = "name"
    THEN Some(SubSeq(line, 3, Len(line)))
    ELSE cur

\* engine.rs 74: the name the Engine is built with.
BuiltName(b) == IF IsSome(b.name) THEN Unwrap(b.name) ELSE b.cmd

\* engine.rs 122-126: the name after the handshake.
NameAfterUsiok_Always(b, cur, un) == IF IsSome(un) THEN Unwrap(un) ELSE cur

NameAfterUsiok(b, cur, un) ==
    IF IsSome(un) /\ IsNone(b.name) THEN Unwrap(un) ELSE cur

InitErr(kind) == [k |-> "Err", kind |-> kind]
InitOk        == [k |-> "Ok", kind |-> "-"]

\* engine.rs 152-155: an Engine that init() gives up is dropped, and Drop
\* writes `quit` (the write may fail).
Dropped(log, landed) == IF landed THEN Append(log, <<"quit">>) ELSE log

\* engine.rs 59-78: the process is spawned and `usi` is written.
InitSpawn(r, landed) ==
    /\ ipc = "start"
    /\ IF r = "SpawnErr"
       THEN /\ ipc' = "done"
            /\ initRet' = InitErr("Other")
            /\ UNCHANGED <<sentLines, engine_name>>
       ELSE /\ engine_name' = BuiltName(builder)
            /\ IF r = "WriteErr"
               THEN /\ ipc' = "done"
                    /\ initRet' = InitErr("Other")
                    /\ sentLines' = Dropped(sentLines, landed)
               ELSE /\ ipc' = "usiok"
                    /\ sentLines' = Append(sentLines, <<"usi">>)
                    /\ UNCHANGED initRet
    /\ UNCHANGED <<builder, seen, usi_name, usiRes>>
    /\ UNCHANGED NotUsi

\* engine.rs 82-102: the reader hands one more line to the callback; on
\* usiok the wait is over and the name is settled (engine.rs 122-126).
InitLine(line) ==
    /\ ipc = "usiok"
    /\ Len(seen) < MaxInitLines
    /\ seen' = Append(seen, line)
    /\ usi_name' = UsiNameAfter(usi_name, line)
    /\ IF UsiCallback(line) = "Stop"
       THEN /\ usiRes' = "Ok"
            /\ engine_name' = NameAfterUsiok(builder, engine_name, usi_name)
            /\ ipc' = "options"
       ELSE UNCHANGED <<usiRes, engine_name, ipc>>
    /\ UNCHANGED <<builder, sentLines, initRet>>
    /\ UNCHANGED NotUsi

\* engine.rs 103-119: the wait for usiok ends without usiok.
InitWaitFails(r, landed) ==
    /\ ipc = "usiok"
    /\ usiRes' = r
    /\ initRet' = CASE r = "Timeout" -> InitErr("TimedOut")
                    [] r = "Disconnected" -> InitErr("UnexpectedEof")
                    [] OTHER -> InitErr("Other")
    /\ sentLines' = Dropped(sentLines, landed)
    /\ ipc' = "done"
    /\ UNCHANGED <<builder, seen, usi_name, engine_name>>
    /\ UNCHANGED NotUsi

\* The number of setoption lines written so far.
OptionsSent == Len(SelectSeq(sentLines, LAMBDA l : l[1] = "setoption"))

\* engine.rs 128-130: the next configured option is written.
InitSetOption(ok, landed) ==
    /\ ipc = "options"
    /\ OptionsSent < Len(builder.usi_options)
    /\ IF ok
       THEN /\ sentLines' = Append(sentLines,
                               SetOptionLine(builder.usi_options[OptionsSent + 1]))
            /\ UNCHANGED <<ipc, initRet>>
       ELSE /\ sentLines' = Dropped(sentLines, landed)
            /\ ipc' = "done"
            /\ initRet' = InitErr("Other")
    /\ UNCHANGED <<builder, seen, usi_name, engine_name, usiRes>>
    /\ UNCHANGED NotUsi

\* engine.rs 132-134: every option has been written; init() returns the Engine.
InitReturn ==
    /\ ipc = "options"
    /\ OptionsSent = Len(builder.usi_options)
    /\ ipc' = "done"
    /\ initRet' = InitOk
    /\ UNCHANGED <<builder, sentLines, seen, usi_name, engine_name, usiRes>>
    /\ UNCHANGED NotUsi

UsiStart(b) ==
    /\ ipc = "start"
    /\ builder = b
    /\ sentLines = <<>>
    /\ seen = <<>>
    /\ usi_name = None
    /\ engine_name = <<>>
    /\ usiRes = "none"
    /\ initRet = [k |-> "none", kind |-> "-"]

UsiIdle == UsiStart([name |-> None, cmd |-> <<"./engine">>, usi_options |-> <<>>])

(***************************************************************************)
(* One worker thread and its engines (src/runner.rs: runner_thread_main).  *)
(* An engine is connected until its stdout reaches end of file.            *)
(***************************************************************************)
MaxEngines == 3
MaxJobs    == 3

EngineIds == 1..MaxEngines

\* tournament/mod.rs 13-16 with runner.rs 123: two different engines.
JobTickets == {t \in EngineIds \X EngineIds : t[1] # t[2]}

\* runner.rs 232-235: isready fails on an engine whose stdout is closed.
Startable(e, t) == e[t[1]] /\ e[t[2]]

\* run_match returned Err.
JobErr == Outcome("Err", "-")

\* What run_match can return for ticket t (runner.rs 214-288).
JobOutcomes(e, t) ==
    IF Startable(e, t)
    THEN {Outcome(k, c) : k \in {"Checkmate", "LossByClock", "LossByDisconnection"},
                          c \in Color}
         \cup {JobErr}
    ELSE {JobErr}

\* runner.rs 117-120: every configured engine is started; a failure panics.
ThreadInit(ok) ==
    /\ tpc = "init"
    /\ IF ok THEN tpc' = "recv" /\ UNCHANGED failure
             ELSE tpc' = "panicked" /\ failure' = "Init"
    /\ UNCHANGED <<engines, job, jobResult, jobsDone>>
    /\ UNCHANGED NotThread

\* runner.rs 122-124: a ticket, or the None that ends the thread, arrives.
ThreadRecv(t) ==
    /\ tpc = "recv"
    /\ IF IsSome(t)
       THEN jobsDone < MaxJobs /\ tpc' = "running" /\ job' = t
       ELSE tpc' = "exited" /\ job' = job
    /\ UNCHANGED <<engines, jobResult, jobsDone, failure>>
    /\ UNCHANGED NotThread

\* runner.rs 126: run_match returns; Err is unwrapped.  The engine that
\* lost by disconnection stays as it is: nothing calls Engine::restart.
ThreadRunMatch(r) ==
    /\ tpc = "running"
    /\ r \in JobOutcomes(engines, Unwrap(job))
    /\ IF r = JobErr
       THEN /\ tpc' = "panicked"
            /\ failure' = IF Startable(engines, Unwrap(job)) THEN "Io"
                          ELSE "DeadEngine"
            /\ UNCHANGED <<engines, jobResult>>
       ELSE /\ tpc' = "send"
            /\ jobResult' = Some(r)
            /\ engines' = IF r.k = "LossByDisconnection"
                          THEN [engines EXCEPT ![Unwrap(job)[to_index(r.c)]] = FALSE]
                          ELSE engines
            /\ UNCHANGED failure
    /\ UNCHANGED <<job, jobsDone>>
    /\ UNCHANGED NotThread

\* runner.rs 128-129: the result is handed to the scheduler.
ThreadSend ==
    /\ tpc = "send"
    /\ tpc' = "recv"
    /\ jobsDone' = jobsDone + 1
    /\ UNCHANGED <<engines, job, jobResult, failure>>
    /\ UNCHANGED NotThread

ThreadStart ==
    /\ tpc = "init"
    /\ engines = [e \in EngineIds |-> TRUE]
    /\ job = None
    /\ jobResult = None
    /\ jobsDone = 0
    /\ failure = "none"

ThreadIdle == ThreadStart

(***************************************************************************)
(* The poll timeout (src/engine.rs: read_with_timeout, unix).  A Duration  *)
(* is kept as whole milliseconds in two limbs, hi * 2^16 + lo, and the     *)
(* microseconds below a millisecond; only numbers below 2^31 are ever      *)
(* computed.                                                               *)
(***************************************************************************)
MaxLimb  == 4
MaxPolls == 2

Limb   == 65536
I32Max == 2147483647

Durations ==
    [hi  : {0, 1, 32767, 32768, 32769, 65535, 65536, 65537, 98304, 131072},
     lo  : (0..MaxLimb) \cup {65534, 65535},
     sub : {0, 999}]

\* Duration::as_millis: the whole milliseconds, the rest is dropped.
as_millis(d) == [hi |-> d.hi, lo |-> d.lo]

\* `x as i32` for x >= 0: the low 32 bits, read as two's complement.
AsI32(ms) ==
    IF ms.hi % Limb >= Limb \div 2
    THEN ((ms.hi % Limb) - Limb) * Limb + ms.lo
    ELSE (ms.hi % Limb) * Limb + ms.lo

\* x.clamp(0, i32::MAX as u128)
ClampI32Max(ms) ==
    IF ms.hi >= Limb \div 2
    THEN [hi |-> Limb \div 2 - 1, lo |-> Limb - 1]
    ELSE ms

\* engine.rs 342-345
timeout_ms_Unclamped(t) ==
    IF IsSome(t) THEN AsI32(as_millis(Unwrap(t))) ELSE -1

timeout_ms(t) ==
    IF IsSome(t) THEN AsI32(ClampI32Max(as_millis(Unwrap(t)))) ELSE -1

\* engine.rs 335-352: a call computes timeout_ms and polls with it.
PollCall(t) ==
    /\ polls < MaxPolls
    /\ pollArg' = t
    /\ pollMs' = timeout_ms(t)
    /\ polls' = polls + 1
    /\ UNCHANGED NotPoll

PollIdle ==
    /\ pollArg = None
    /\ pollMs = -1
    /\ polls = 0

(***************************************************************************)
(* TimeControl as text (src/tc.rs: impl Display, TimeControl::parse).      *)
(* A string is the sequence of its characters; the literal words           *)
(* `infinite`, `movetime=` and `N=` are one character each.  A Duration is *)
(* a number of milliseconds, an f64 number of seconds is kept in           *)
(* thousandths.  The Japanese spellings that parse also accepts are left   *)
(* out: to_string never writes them.                                       *)
(***************************************************************************)
DigitChars == <<"0", "1", "2", "3", "4", "5", "6", "7", "8", "9">>
NumChars   == {DigitChars[i] : i \in 1..10} \cup {"."}

\* The durations and node counts tried; 1001 ms is a duration whose seconds
\* are not a binary fraction.
TcMillis   == {0, 500, 1000, 1001, 1500, 60000, 90500}
NodeCounts == {0, 1, 42}

TcValues ==
    {TcNone}
    \cup {TcNodes(n) : n \in NodeCounts}
    \cup {TcMoveTime(d) : d \in TcMillis}
    \cup {TcByoyomi(a, b) : a \in TcMillis, b \in TcMillis}
    \cup {TcFischer(a, b) : a \in TcMillis, b \in TcMillis}

\* Display of an integer.
RECURSIVE Digits(_)
Digits(n) ==
    IF n < 10 THEN <<DigitChars[n + 1]>>
    ELSE Append(Digits(n \div 10), DigitChars[(n % 10) + 1])

\* Display of Duration::as_secs_f64 (tc.rs 118, 130, 132, 146, 150): the
\* shortest decimal that reads back as the same f64, `1` for 1.0.
SecsText(ms) ==
    LET f == ms % 1000
        d == <<f \div 100, (f \div 10) % 10, f % 10>>
        n == IF d[3] # 0 THEN 3 ELSE IF d[2] # 0 THEN 2 ELSE 1
    IN Digits(ms \div 1000)
       \o (IF f = 0 THEN <<>>
           ELSE <<".">> \o [i \in 1..n |-> DigitChars[d[i] + 1]])

\* tc.rs 121-131, 136-146: minutes and the seconds left over, each written
\* only when above zero.
BaseText(base) ==
    LET minutes == base \div 60000
        seconds == base % 60000
    IN (IF minutes > 0 THEN Append(Digits(minutes), "m") ELSE <<>>)
       \o (IF seconds > 0 THEN Append(SecsText(seconds), "s") ELSE <<>>)

\* tc.rs 114-155: impl Display for TimeControl.
TimeControl_to_string(tc) ==
    CASE tc.k = "None"     -> <<"infinite">>
      [] tc.k = "Nodes"    -> <<"N=">> \o Digits(tc.a)
      [] tc.k = "MoveTime" -> <<"movetime=">> \o SecsText(tc.a) \o <<"s">>
      [] tc.k = "Byoyomi"  -> BaseText(tc.a) \o <<",">> \o SecsText(tc.b) \o <<"s">>
      [] tc.k = "Fischer"  ->
           (IF tc.a # 0 \/ tc.b = 0 THEN BaseText(tc.a) ELSE <<>>)
           \o (IF tc.b # 0 THEN <<"+">> \o SecsText(tc.b) \o <<"s">> ELSE <<>>)

\* The last position of the longest run of [0-9.] that starts at i; i - 1
\* when there is none.
RunEnd(s, i) ==
    LET ends == {j \in (i - 1)..Len(s) : \A k \in i..j : s[k] \in NumChars}
    IN CHOOSE j \in ends : \A j2 \in ends : j2 <= j

DigitVal(c) == CHOOSE d \in 0..9 : DigitChars[d + 1] = c

RECURSIVE ValueOf(_)
ValueOf(ds) ==
    IF ds = <<>> THEN 0
    ELSE ValueOf(SubSeq(ds, 1, Len(ds) - 1)) * 10 + DigitVal(ds[Len(ds)])

\* str::parse::<f64> (tc.rs 47, 75, 98) of a run of [0-9.]: an error with
\* two points or without a digit; the value in thousandths otherwise
\* (to_string writes no more than three decimals).
ParseF64(run) ==
    LET dots == {k \in 1..Len(run) : run[k] = "."}
    IN IF Cardinality(dots) > 1 \/ Cardinality(dots) = Len(run) THEN None
       ELSE LET dot   == IF dots = {} THEN Len(run) + 1
                         ELSE CHOOSE k \in dots : TRUE
                whole == SubSeq(run, 1, dot - 1)
                frac  == SubSeq(run, dot + 1, Len(run))
                th    == [i \in 1..3 |->
                            IF i <= Len(frac) THEN DigitVal(frac[i]) ELSE 0]
            IN Some(ValueOf(whole) * 1000 + th[1] * 100 + th[2] * 10 + th[3])

\* tc.rs 47: to_float, "0" for a group that did not take part in the match.
to_float(s, from, to) ==
    IF to < from THEN Some(0) ELSE ParseF64(SubSeq(s, from, to))

\* IEEE double products x * 1000.0 that fall below the whole number of
\* milliseconds: 1.001 * 1000.0 = 1000.9999999999999.
RoundsBelow == {1001}

\* tc.rs 54-55, 82-83, 100: (x * 1000.0) as u64 truncates.
F64Millis(x) == IF x \in RoundsBelow THEN x - 1 ELSE x

\* tc.rs 38, 66: the part `(?:(min)[:m])?(?:(sec)s?)?` that both patterns
\* begin with; `next` is the position after it.
BasePrefix(s) ==
    LET e1     == RunEnd(s, 1)
        hasMin == e1 >= 1 /\ e1 < Len(s) /\ s[e1 + 1] \in {":", "m"}
        p2     == IF hasMin THEN e1 + 2 ELSE 1
        e2     == RunEnd(s, p2)
        sfx    == e2 >= p2 /\ e2 < Len(s) /\ s[e2 + 1] = "s"
    IN [min  |-> IF hasMin THEN to_float(s, 1, e1) ELSE Some(0),
        sec  |-> to_float(s, p2, e2),
        next |-> IF sfx THEN e2 + 2 ELSE e2 + 1]

\* A number at position p with an optional `s`, up to the end of s.
NumberToEnd(s, p) ==
    LET e == RunEnd(s, p)
    IN e >= p /\ (e = Len(s) \/ (e + 1 = Len(s) /\ s[e + 1] = "s"))

\* tc.rs 36-62
try_parse_fischer(s) ==
    LET b       == BasePrefix(s)
        hasIncr == b.next <= Len(s) /\ s[b.next] = "+"
        matches == IF hasIncr THEN NumberToEnd(s, b.next + 1)
                   ELSE b.next = Len(s) + 1
        incr    == IF hasIncr
                   THEN to_float(s, b.next + 1, RunEnd(s, b.next + 1))
                   ELSE Some(0)
    IN IF ~matches \/ IsNone(b.min) \/ IsNone(b.sec) \/ IsNone(incr) THEN None
       ELSE Some(TcFischer(F64Millis(Unwrap(b.min) * 60 + Unwrap(b.sec)),
                           F64Millis(Unwrap(incr))))

\* tc.rs 64-90
try_parse_byoyomi(s) ==
    LET b       == BasePrefix(s)
        matches == /\ b.next <= Len(s) /\ s[b.next] \in {",", ";"}
                   /\ NumberToEnd(s, b.next + 1)
        byoyomi == to_float(s, b.next + 1, RunEnd(s, b.next + 1))
    IN IF ~matches THEN None
       ELSE IF IsNone(b.min) \/ IsNone(b.sec) \/ IsNone(byoyomi) THEN None
       ELSE Some(TcByoyomi(F64Millis(Unwrap(b.min) * 60 + Unwrap(b.sec)),
                           F64Millis(Unwrap(byoyomi))))

\* tc.rs 92-103: `movetime=([0-9.]+)s?$`, found anywhere in s.
try_parse_movetime(s) ==
    LET at == {i \in 1..Len(s) : s[i] = "movetime=" /\ NumberToEnd(s, i + 1)}
    IN IF at = {} THEN None
       ELSE LET i == CHOOSE i \in at : \A i2 \in at : i <= i2
                v == to_float(s, i + 1, RunEnd(s, i + 1))
            IN IF IsNone(v) THEN None
               ELSE Some(TcMoveTime(F64Millis(Unwrap(v))))

\* tc.rs 105-113: `^N=([0-9]+)$`
try_parse_nodes(s) ==
    IF /\ Len(s) >= 2 /\ s[1] = "N="
       /\ \A k \in 2..Len(s) : s[k] \in NumChars \ {"."}
    THEN Some(TcNodes(ValueOf(SubSeq(s, 2, Len(s)))))
    ELSE None

\* Option::or_else
or_else(o, alt) == IF IsSome(o) THEN o ELSE alt

\* tc.rs 28-34: TimeControl::parse.
TimeControl_parse(s) ==
    or_else(or_else(or_else(try_parse_fischer(s), try_parse_byoyomi(s)),
                    try_parse_movetime(s)),
            try_parse_nodes(s))

\* tc.to_string()
TcFormat ==
    /\ tcpc = "new"
    /\ tcpc' = "formatted"
    /\ tcText' = TimeControl_to_string(tcv)
    /\ UNCHANGED <<tcv, tcParsed>>
    /\ UNCHANGED NotText

\* TimeControl::parse(&text)
TcParse ==
    /\ tcpc = "formatted"
    /\ tcpc' = "parsed"
    /\ tcParsed' = TimeControl_parse(tcText)
    /\ UNCHANGED <<tcv, tcText>>
    /\ UNCHANGED NotText

TextStart(tc) ==
    /\ tcpc = "new"
    /\ tcv = tc
    /\ tcText = <<>>
    /\ tcParsed = None

TextIdle == TextStart(TcNone)

(***************************************************************************)
(* The wrapper chain (src/main.rs 47-62): ReporterWrapper around an        *)
(* optional PgnOutWrapper around RoundRobin.  `chain` holds the RoundRobin *)
(* (rr), everything done below the outermost call in order (trace) and the *)
(* values RoundRobin returned (innerRet).                                  *)
(***************************************************************************)
MaxChainCalls == 4
MaxTicketId   == 1

Event(who, call, id) == [who |-> who, call |-> call, id |-> id]

RetTicket(t) == [k |-> "ticket", ticket |-> t, state |-> "-", count |-> None]
RetState(s)  == [k |-> "state", ticket |-> None, state |-> s, count |-> None]
RetCount(c)  == [k |-> "count", ticket |-> None, state |-> "-", count |-> c]
RetUnit      == [k |-> "unit", ticket |-> None, state |-> "-", count |-> None]
Panicked(w)  == [ret |-> RetUnit, w |-> w, panic |-> TRUE]

Did(w, e) == [w EXCEPT !.trace = Append(@, e)]

Returned_by_inner(w, e, rr2, r) ==
    [ret   |-> r,
     w     |-> [w EXCEPT !.rr = rr2, !.trace = Append(@, e),
                         !.innerRet = Append(@, r)],
     panic |-> FALSE]

\* round_robin.rs 38-88: the wrapped RoundRobin is called.
Inner_next(w) ==
    Returned_by_inner(w, Event("inner", "next", -1), RoundRobin_next(w.rr).self,
                      RetTicket(RoundRobin_next(w.rr).ret))
Inner_match_started(w, id) ==
    Returned_by_inner(w, Event("inner", "match_started", id), w.rr, RetUnit)
Inner_match_complete(w, id) ==
    Returned_by_inner(w, Event("inner", "match_complete", id),
                      RoundRobin_match_complete(w.rr).self,
                      RetState(RoundRobin_match_complete(w.rr).ret))
Inner_expected_maximum_match_count(w) ==
    Returned_by_inner(w, Event("inner", "expected", -1), w.rr,
                      RetCount(w.rr.total_matches))

\* pgn_out_wrapper.rs 25-45.  `written` is whether PgnWriter::write
\* returned Ok; its Err is unwrapped.
PgnOut_next(w) == Inner_next(w)
PgnOut_match_started(w, id) == Inner_match_started(w, id)
PgnOut_match_complete(w, id, written) ==
    IF written
    THEN Inner_match_complete(Did(w, Event("pgn", "write", id)), id)
    ELSE Panicked(w)
PgnOut_expected_maximum_match_count(w) == Inner_expected_maximum_match_count(w)

\* main.rs 50-57: the Tournament that ReporterWrapper wraps.
Below_next(p, w) == IF p THEN PgnOut_next(w) ELSE Inner_next(w)
Below_match_started(p, w, id) ==
    IF p THEN PgnOut_match_started(w, id) ELSE Inner_match_started(w, id)
Below_match_complete(p, w, id, written) ==
    IF p THEN PgnOut_match_complete(w, id, written)
         ELSE Inner_match_complete(w, id)
Below_expected_maximum_match_count(p, w) ==
    IF p THEN PgnOut_expected_maximum_match_count(w)
         ELSE Inner_expected_maximum_match_count(w)

\* reporter_wrapper.rs 29-69: a line is printed, then the call is forwarded.
Reporter_next(p, w) == Below_next(p, w)
Reporter_match_started(p, w, id) ==
    Below_match_started(p, Did(w, Event("print", "Started", id)), id)
Reporter_match_complete(p, w, id, written) ==
    Below_match_complete(p, Did(w, Event("print", "Finished", id)), id, written)
Reporter_expected_maximum_match_count(p, w) ==
    Below_expected_maximum_match_count(p, w)

\* One call on the outermost Tournament, answered by `r`.
ChainCall(call, id, r) ==
    /\ ~chainPanic
    /\ Len(outerCalls) < MaxChainCalls
    /\ outerCalls' = Append(outerCalls, Event("outer", call, id))
    /\ chain' = r.w
    /\ chainPanic' = r.panic
    /\ outerRet' = IF r.panic THEN outerRet ELSE Append(outerRet, r.ret)
    /\ UNCHANGED pgnOn
    /\ UNCHANGED NotChain

ChainNext == ChainCall("next", -1, Reporter_next(pgnOn, chain))

ChainMatchStarted(id) ==
    ChainCall("match_started", id, Reporter_match_started(pgnOn, chain, id))

ChainMatchComplete(id, written) ==
    ChainCall("match_complete", id,
              Reporter_match_complete(pgnOn, chain, id, written))

ChainExpected ==
    ChainCall("expected", -1, Reporter_expected_maximum_match_count(pgnOn, chain))

ChainStart(p, rr0) ==
    /\ pgnOn = p
    /\ chain = [rr |-> rr0, trace |-> <<>>, innerRet |-> <<>>]
    /\ outerCalls = <<>>
    /\ outerRet = <<>>
    /\ chainPanic = FALSE

ChainIdle == ChainStart(FALSE, RoundRobin_new(2, 1, None))

(***************************************************************************)
(* Specifications                                                          *)
(***************************************************************************)
\* RoundRobin driven directly through its Tournament interface.
RRCallNext ==
    /\ Len(rrLog) < MaxCalls
    /\ rr' = RoundRobin_next(rr).self
    /\ rrLog' = Append(rrLog, RoundRobin_next(rr).ret)
    /\ UNCHANGED rrState
    /\ UNCHANGED NotRR

RRCallMatchComplete ==
    /\ Len(rrState) < MaxCalls
    /\ rr' = RoundRobin_match_complete(rr).self
    /\ rrState' = Append(rrState, RoundRobin_match_complete(rr).ret)
    /\ UNCHANGED rrLog
    /\ UNCHANGED NotRR

Games == {None} \cup {Some(g) : g \in 1..MaxGames}

InitRR ==
    /\ rr \in {RoundRobin_new(n, r, g) :
                 n \in 2..MaxPlayers, r \in 1..MaxRounds, g \in Games}
    /\ rrLog = <<>>
    /\ rrState = <<>>
    /\ RunnerIdle /\ MatchIdle /\ ReaderInit /\ ClockIdle /\ GoIdle /\ AdjIdle
    /\ ChainIdle
    /\ TextIdle
    /\ PollIdle
    /\ ThreadIdle
    /\ UsiIdle

NextRR ==
    \/ RRCallNext
    \/ RRCallMatchComplete

SpecRR == InitRR /\ [][NextRR]_vars

\* The runner: scheduler, workers and the tournament chain.
Init ==
    /\ rr \in {RoundRobin_new(n, r, g) :
                 n \in 2..3, r \in 1..2, g \in {None, Some(1)}}
    /\ rrLog = <<>>
    /\ rrState = <<>>
    /\ sprt \in BOOLEAN
    /\ concurrency \in 1..MaxWorkers
    /\ spc = "loop"
    /\ state = "Continue"
    /\ ticket = None
    /\ wpc = [w \in Workers |-> "recv"]
    /\ wticket = [w \in Workers |-> None]
    /\ received = <<>>
    /\ started = <<>>
    /\ results = {}
    /\ nextCalls = 0
    /\ nonesSent = [w \in Workers |-> 0]
    /\ completeCalls = 0
    /\ report_interval \in (IF sprt THEN {None} ELSE ReportIntervals)
    /\ match_count = 0
    /\ reports = <<>>
    /\ MatchIdle /\ ReaderInit /\ ClockIdle /\ GoIdle /\ AdjIdle
    /\ ChainIdle
    /\ TextIdle
    /\ PollIdle
    /\ ThreadIdle
    /\ UsiIdle

Next == RunnerStep

Spec == Init /\ [][Next]_vars

\* The runner with its threads scheduled fairly: the scheduler thread goes on
\* whenever it can (runner.rs 75-106), and a worker whose match is running
\* gets to the end of run_match (runner.rs 126).
SchedulerStep ==
    \/ SchedNext
    \/ \E w \in Workers : SchedRecvResult(w)
    \/ \E w \in Workers : SchedSendTicket(w)
    \/ SchedMatchStarted
    \/ \E w \in Workers : SchedSendNone(w)
    \/ SchedJoin

WorkerReturns(w) == w \in Workers /\ (WorkerFinish(w) \/ WorkerPanic(w))

Fairness ==
    /\ WF_vars(SchedulerStep)
    /\ \A w \in 1..MaxWorkers : WF_vars(WorkerReturns(w))

SpecFair == Init /\ [][Next]_vars /\ Fairness

\* One match.
InitMatch == MatchInit /\ RRIdle /\ RunnerIdle /\ ReaderInit /\ ClockIdle /\ GoIdle /\ AdjIdle
    /\ ChainIdle
    /\ TextIdle
    /\ PollIdle
    /\ ThreadIdle
    /\ UsiIdle

NextMatch == MatchStep

SpecMatch == InitMatch /\ [][NextMatch]_vars

\* One engine's timed reader.
InitReader == ReaderInit /\ RRIdle /\ RunnerIdle /\ MatchIdle /\ ClockIdle /\ GoIdle /\ AdjIdle
    /\ ChainIdle
    /\ TextIdle
    /\ PollIdle
    /\ ThreadIdle
    /\ UsiIdle

\* One clock, charged a few times.
InitClock ==
    /\ clock \in {EngineTime_new(tc, m) : tc \in ClockTimeControls, m \in Margins}
    /\ charge = None
    /\ charges = 0
    /\ RRIdle /\ RunnerIdle /\ MatchIdle /\ ReaderInit /\ GoIdle /\ AdjIdle
    /\ ChainIdle
    /\ TextIdle
    /\ PollIdle
    /\ ThreadIdle
    /\ UsiIdle

NextClock == \E d \in ClockDurations : ClockStep(d)

SpecClock == InitClock /\ [][NextClock]_vars

\* The two clocks of a match and the `go` arguments made from them.
InitGo ==
    /\ goTimes \in {<<EngineTime_new(t0, m0), EngineTime_new(t1, m1)>> :
                      t0 \in GoTimeControls, t1 \in GoTimeControls,
                      m0 \in Margins, m1 \in Margins}
    /\ goArgs = None
    /\ goCharges = 0
    /\ RRIdle /\ RunnerIdle /\ MatchIdle /\ ReaderInit /\ ClockIdle /\ AdjIdle
    /\ ChainIdle
    /\ TextIdle
    /\ PollIdle
    /\ ThreadIdle
    /\ UsiIdle

NextGo ==
    \/ \E c \in Color, d \in GoDurations : GoCharge(c, d)
    \/ \E color \in Color : GoFormat(color)

SpecGo == InitGo /\ [][NextGo]_vars

\* The adjudication rules applied after each move of a game.
InitAdj ==
    /\ adjOpts \in AdjChoices
    /\ adjMoves = <<>>
    /\ adjOut = Undetermined
    /\ adjStm = "-"
    /\ RRIdle /\ RunnerIdle /\ MatchIdle /\ ReaderInit /\ ClockIdle /\ GoIdle
    /\ ChainIdle
    /\ TextIdle
    /\ PollIdle
    /\ ThreadIdle
    /\ UsiIdle

NextAdj ==
    \/ \E c \in Color, score \in AdjScores : AdjPly(c, score)
    \/ \E c \in Color, score \in AdjScores : AdjCallOther(c, score)

SpecAdj == InitAdj /\ [][NextAdj]_vars

NextReader == ReaderStep

SpecReader == InitReader /\ [][NextReader]_vars

\* A TimeControl written out and read back.
InitText ==
    /\ \E tc \in TcValues : TextStart(tc)
    /\ RRIdle /\ RunnerIdle /\ MatchIdle /\ ReaderInit /\ ClockIdle /\ GoIdle /\ AdjIdle
    /\ ChainIdle
    /\ UsiIdle /\ ThreadIdle /\ PollIdle

NextText ==
    \/ TcFormat
    \/ TcParse

SpecText == InitText /\ [][NextText]_vars

\* The wrapper chain called in every order.
InitChain ==
    /\ \E p \in BOOLEAN, g \in {None, Some(1)} :
          ChainStart(p, RoundRobin_new(2, 2, g))
    /\ RRIdle /\ RunnerIdle /\ MatchIdle /\ ReaderInit /\ ClockIdle /\ GoIdle /\ AdjIdle
    /\ UsiIdle /\ ThreadIdle /\ PollIdle /\ TextIdle

NextChain ==
    \/ ChainNext
    \/ \E id \in 0..MaxTicketId : ChainMatchStarted(id)
    \/ \E id \in 0..MaxTicketId, written \in BOOLEAN :
          ChainMatchComplete(id, written)
    \/ ChainExpected

SpecChain == InitChain /\ [][NextChain]_vars

\* One EngineBuilder::init call.
InitUsi ==
    /\ \E b \in Builders : UsiStart(b)
    /\ RRIdle /\ RunnerIdle /\ MatchIdle /\ ReaderInit /\ ClockIdle /\ GoIdle /\ AdjIdle
    /\ ChainIdle
    /\ TextIdle
    /\ PollIdle
    /\ ThreadIdle

NextUsi ==
    \/ \E r \in {"Ok", "SpawnErr", "WriteErr"}, landed \in BOOLEAN : InitSpawn(r, landed)
    \/ \E line \in InitLines : InitLine(line)
    \/ \E r \in {"Timeout", "Disconnected", "Err"}, landed \in BOOLEAN : InitWaitFails(r, landed)
    \/ \E ok \in BOOLEAN, landed \in BOOLEAN : InitSetOption(ok, landed)
    \/ InitReturn

SpecUsi == InitUsi /\ [][NextUsi]_vars

\* One worker thread fed with tickets.
InitThread ==
    /\ ThreadStart
    /\ RRIdle /\ RunnerIdle /\ MatchIdle /\ ReaderInit /\ ClockIdle /\ GoIdle /\ AdjIdle
    /\ ChainIdle
    /\ TextIdle
    /\ PollIdle
    /\ UsiIdle

NextThread ==
    \/ \E ok \in BOOLEAN : ThreadInit(ok)
    \/ \E t \in {None} \cup {Some(x) : x \in JobTickets} : ThreadRecv(t)
    \/ \E r \in JobOutcomes([e \in EngineIds |-> TRUE], <<1, 2>>) : ThreadRunMatch(r)
    \/ ThreadSend

SpecThread == InitThread /\ [][NextThread]_vars

\* Calls of read_with_timeout with deadlines around the limits of i32.
InitPoll ==
    /\ PollIdle
    /\ RRIdle /\ RunnerIdle /\ MatchIdle /\ ReaderInit /\ ClockIdle /\ GoIdle /\ AdjIdle
    /\ ChainIdle
    /\ TextIdle
    /\ UsiIdle /\ ThreadIdle

NextPoll == \E t \in {None} \cup {Some(d) : d \in Durations} : PollCall(t)

SpecPoll == InitPoll /\ [][NextPoll]_vars

(***************************************************************************)
(* Properties                                                              *)
(***************************************************************************)
Returned == ret = "Ok"
FinalMoves == match_result.moves
FinalOutcome == match_result.outcome

\* C1: every MatchResult returned by run_match has a determined outcome,
\* whatever the engines answered and however the match ended.
C1_ResultDetermined == Returned => FinalOutcome.k # "Undetermined"

C1_Witness ==
    /\ Returned
    /\ Len(FinalMoves) >= 2
    /\ last.ev = "Disconnected"

\* C2: a LossByClock(c) result names the side to move of the final ply: the
\* side awaited when the reader timed out, or the colour of the last move
\* record whose clock charge returned TimeElapsed.
C2_ClockLossOnMover ==
    (Returned /\ FinalOutcome.k = "LossByClock") =>
        /\ FinalOutcome.c = last.stm
        /\ \/ last.ev = "Timeout" /\ FinalOutcome.c = stm
           \/ /\ last.ev = "Ok"
              /\ last.time_outcome = "TimeElapsed"
              /\ FinalMoves[Len(FinalMoves)].stm = FinalOutcome.c
              /\ FinalOutcome.c = Not(stm)

C2_Witness ==
    /\ Returned
    /\ FinalOutcome.k = "LossByClock"
    /\ last.ev = "Ok"
    /\ Len(FinalMoves) >= 2

\* C6: while bestmove is awaited from the side to move, a reader Timeout
\* ends the match as LossByClock(STM) and a Disconnected as
\* LossByDisconnection(STM), both as an Ok MatchResult; an io error is
\* returned as the error and no MatchResult.
C6_WaitFailures ==
    /\ last.ev \in {"Timeout", "Disconnected", "Err"} => last.stm = stm
    /\ last.ev = "Timeout" =>
          Returned /\ FinalOutcome = Outcome("LossByClock", last.stm)
    /\ last.ev = "Disconnected" =>
          Returned /\ FinalOutcome = Outcome("LossByDisconnection", last.stm)
    /\ last.ev = "Err" => ret = "Err" /\ FinalOutcome = Undetermined

C6_Witness ==
    /\ last.ev = "Timeout"
    /\ Len(FinalMoves) >= 1
    /\ Returned

\* C7: a ply whose clock charge returned TimeElapsed ends the match as
\* LossByClock(STM), whatever the game module reported for the move and
\* whatever adjudication rules hold on that ply.
C7_ClockLossWins ==
    (last.ev = "Ok" /\ last.time_outcome = "TimeElapsed") =>
        Returned /\ FinalOutcome = Outcome("LossByClock", last.stm)

C7_Witness ==
    /\ last.ev = "Ok" /\ last.time_outcome = "TimeElapsed"
    /\ last.game.k = "WinByCheckmate"
    /\ IsSome(adjudication.max_moves)
    /\ Len(FinalMoves) >= Unwrap(adjudication.max_moves)
    /\ IsSome(adjudication.draw)
    /\ DrawScore(FinalMoves[Len(FinalMoves)], Unwrap(adjudication.draw))

\* C8: with max_moves = Some(M) no result has more than M moves, and a
\* result with exactly M moves that was still Undetermined after the game
\* module and the clock charge of the M-th move is DrawByMoveLimit.
C8_MoveLimit ==
    IsSome(adjudication.max_moves) =>
        /\ Len(FinalMoves) <= Unwrap(adjudication.max_moves)
        /\ ( /\ Returned
             /\ Len(FinalMoves) = Unwrap(adjudication.max_moves)
             /\ last.ev = "Ok"
             /\ last.charged = Undetermined )
           => FinalOutcome = Outcome("DrawByMoveLimit", "-")

\* The unordered pairs of N engines in lexicographic order.
Pairs(n) == {p \in (0..(n - 1)) \X (0..(n - 1)) : p[1] < p[2]}
Rank(p, n) ==
    Cardinality({q \in Pairs(n) :
                    q[1] < p[1] \/ (q[1] = p[1] /\ q[2] < p[2])})
LexPair(n, k) == CHOOSE p \in Pairs(n) : Rank(p, n) = k

TotalTickets == Cardinality(Pairs(rr.players)) * rr.rounds * Unwrap(rr.games)

\* C4: with games = Some(g) the first T = (N*(N-1)/2)*r*g calls of next()
\* return the tickets 0, 1, ..., T-1 in that order and call T+1 returns
\* None; with games = None next() never returns None and match_complete
\* never returns Stop.
C4_TicketCount ==
    /\ IsSome(rr.games) =>
          \A k \in 1..Len(rrLog) :
              /\ k <= TotalTickets =>
                    IsSome(rrLog[k]) /\ Unwrap(rrLog[k]).id = k - 1
              /\ k = TotalTickets + 1 => IsNone(rrLog[k])
    /\ IsNone(rr.games) =>
          /\ \A k \in 1..Len(rrLog) :
                IsSome(rrLog[k]) /\ Unwrap(rrLog[k]).id = k - 1
          /\ \A k \in 1..Len(rrState) : rrState[k] = "Continue"

C4_Witness ==
    /\ IsSome(rr.games)
    /\ rr.players = 3 /\ rr.rounds = 2 /\ rr.games = Some(2)
    /\ Len(rrLog) = TotalTickets + 1
    /\ IsNone(rrLog[Len(rrLog)])

\* C5: ticket k carries pairing floor(k / r) mod P of the lexicographic list
\* of pairs, as [i, j] when k mod r is even and as [j, i] when it is odd; the
\* two engines differ and are below N.  N = 3, r = 2, g = 1 gives
\* (0,1),(1,0),(0,2),(2,0),(1,2),(2,1).
C5_Pairing ==
    /\ \A k \in 1..Len(rrLog) :
          IsSome(rrLog[k]) =>
             LET id == Unwrap(rrLog[k]).id
                 e  == Unwrap(rrLog[k]).engines
                 p  == LexPair(rr.players,
                               (id \div rr.rounds) % Cardinality(Pairs(rr.players)))
             IN /\ e = IF (id % rr.rounds) % 2 = 0 THEN p ELSE <<p[2], p[1]>>
                /\ e[1] # e[2]
                /\ e[1] \in 0..(rr.players - 1)
                /\ e[2] \in 0..(rr.players - 1)
    /\ (rr.players = 3 /\ rr.rounds = 2 /\ rr.games = Some(1) /\ Len(rrLog) >= 6)
          => [k \in 1..6 |-> Unwrap(rrLog[k]).engines]
                = << <<0, 1>>, <<1, 0>>, <<0, 2>>, <<2, 0>>, <<1, 2>>, <<2, 1>> >>

C5_Witness ==
    /\ rr.players = 3 /\ rr.rounds = 2 /\ rr.games = Some(1)
    /\ Len(rrLog) = 6

\* C3: once match_complete has returned Stop the shutdown runs to its end:
\* while no worker thread has died, the scheduler or a worker can always
\* take a further step until tournament_complete has been called, and at
\* that point every worker has received exactly one None and has left its
\* loop, and tournament_complete has been called exactly once.
C3_ShutdownCompletes ==
    /\ (spc \in {"shutdown", "join"} /\ \A w \in Workers : wpc[w] # "panicked")
          => ENABLED Next
    /\ spc = "done" =>
          /\ \A w \in Workers : nonesSent[w] = 1 /\ wpc[w] = "exited"
          /\ completeCalls = 1

\* C10: no ticket id is received twice (by two workers or by one), every
\* ticket received came from next(), and a lookahead ticket is given up only
\* by handing it to a worker: while the scheduler holds one, next() is not
\* called and handling a result leaves the lookahead as it is.
NoTicketTwice ==
    /\ \A i, j \in 1..Len(received) :
          received[i][2].id = received[j][2].id => i = j
    /\ \A i \in 1..Len(received) :
          \E k \in 1..Len(rrLog) : rrLog[k] = Some(received[i][2])

LookaheadKept ==
    IsSome(ticket) =>
        /\ nextCalls' = nextCalls
        /\ \/ ticket' = ticket
           \/ /\ ticket' = None
              /\ Len(received) >= 1
              /\ received[Len(received)][2] = Unwrap(ticket)
              /\ Len(started') = Len(started) + 1

C10_TicketOnce == [](NoTicketTwice) /\ [][LookaheadKept]_vars

C10_Witness ==
    /\ IsSome(ticket)
    /\ state = "Continue"
    /\ Len(rrState) >= 1
    /\ Len(received) >= 2
    /\ received[1][1] # received[2][1]

\* C9: a call of read_with_timeout with deadline D whose callback has not
\* answered Stop is over no later than D after it began, also when the child
\* keeps writing (an engine that streams info lines and never sends
\* bestmove gets Timeout within D).
C9_ReturnsWithinDeadline ==
    (IsSome(timeout) /\ (rdpc = "poll" \/ rdres \in {"Timeout", "Disconnected", "Err"}))
        => elapsed <= Unwrap(timeout)

\* C11: at any time the tickets handed to workers exceed the results received
\* by at most `concurrency`, no worker has more than one ticket outstanding,
\* and at most one ticket returned by next() has not yet been handed over.
HandedTo(w)   == Cardinality({i \in 1..Len(received) : received[i][1] = w})
ResultsOf(w)  == Cardinality({r \in results : r[1] = w})
Issued        == Cardinality({k \in 1..Len(rrLog) : IsSome(rrLog[k])})
Unsent        == Issued - (IF spc = "started" THEN Len(received) - 1
                           ELSE Len(received))

C11_InFlightBounded ==
    /\ Len(received) - Cardinality(results) <= concurrency
    /\ Len(received) - Cardinality(results) >= 0
    /\ \A w \in Workers :
          /\ HandedTo(w) - ResultsOf(w) \in {0, 1}
          /\ HandedTo(w) - ResultsOf(w) = 1 <=> IsSome(wticket[w])
    /\ Unsent \in {0, 1}
    /\ Unsent = 1 <=> IsSome(ticket)

C11_Witness ==
    /\ concurrency = 2
    /\ Len(received) - Cardinality(results) = concurrency
    /\ IsSome(ticket)
    /\ spc = "select"
    /\ results # {}

\* C12: the match_started calls are, in order, exactly the tickets handed to
\* workers: each hand-off is followed by its call before the scheduler does
\* anything else, no other ticket is ever reported as started, and a result
\* is only received for a ticket already reported as started.
HandedTickets == [i \in 1..Len(received) |-> received[i][2]]

C12_StartedOnce ==
    /\ IF spc = "started"
       THEN /\ Len(received) >= 1
            /\ started = SubSeq(HandedTickets, 1, Len(received) - 1)
            /\ ticket = Some(received[Len(received)][2])
       ELSE started = HandedTickets
    /\ \A r \in results :
          \E j \in 1..Len(started) : started[j] = r[2]

C12_StartedStep ==
    /\ spc = "started" =>
          \/ /\ spc' = "loop"
             /\ started' = Append(started, Unwrap(ticket))
          \/ UNCHANGED <<rrVars, spc, state, ticket, received, started,
                         results, nextCalls, nonesSent, completeCalls>>
    /\ \A r \in results' \ results :
          \E j \in 1..Len(started) : started[j] = r[2]

C12_MatchStarted == [](C12_StartedOnce) /\ [][C12_StartedStep]_vars

C12_Witness ==
    /\ spc = "started"
    /\ results # {}
    /\ wpc[received[Len(received)][1]] = "send"

\* C13: a Fischer clock starts at base + increment; a step of d <= remaining
\* answers Ok and leaves remaining - d + increment, a step of d > remaining
\* answers TimeElapsed and leaves 0 (base 1000, increment 100: 1100, step
\* 900 gives Ok and 300, step 400 gives TimeElapsed and 0).
Charged == IsSome(charge)
LastCharge == Unwrap(charge)

C13_FischerStep ==
    clock.tc.k = "Fischer" =>
        IF ~Charged
        THEN clock.remaining = clock.tc.a + clock.tc.b
        ELSE LET d   == LastCharge.d
                 rem == LastCharge.before.remaining
             IN /\ clock.tc = LastCharge.before.tc
                /\ d <= rem => /\ LastCharge.ret = "Ok"
                               /\ clock.remaining = rem - d + clock.tc.b
                /\ d > rem  => /\ LastCharge.ret = "TimeElapsed"
                               /\ clock.remaining = 0
                /\ (clock.tc = TcFischer(1000, 100) /\ charges = 1 /\ d = 900)
                      => (rem = 1100 /\ LastCharge.ret = "Ok"
                          /\ clock.remaining = 300)
                /\ (clock.tc = TcFischer(1000, 100) /\ rem = 300 /\ d = 400)
                      => (LastCharge.ret = "TimeElapsed" /\ clock.remaining = 0)

C13_Witness ==
    /\ clock.tc = TcFischer(1000, 100)
    /\ charges = 2
    /\ LastCharge.d = 400
    /\ LastCharge.before.remaining = 300
    /\ LastCharge.ret = "TimeElapsed"
    /\ clock.remaining = 0

\* C14: a Byoyomi clock is drained by each step down to zero and never
\* refilled: remaining' = max(remaining - d, 0); the step answers TimeElapsed
\* exactly when the part of d beyond the old remaining exceeds byoyomi;
\* remaining is never negative and stays zero once it is zero.
Max(x, y) == IF x >= y THEN x ELSE y

ByoyomiCharge ==
    (clock.tc.k = "Byoyomi" /\ Charged) =>
        LET d   == LastCharge.d
            rem == LastCharge.before.remaining
        IN /\ clock.tc = LastCharge.before.tc
           /\ clock.remaining = Max(rem - d, 0)
           /\ clock.remaining <= rem
           /\ LastCharge.ret = "TimeElapsed" <=> Max(d - rem, 0) > clock.tc.b
           /\ LastCharge.ret \in {"Ok", "TimeElapsed"}

ByoyomiDrained ==
    clock.tc.k = "Byoyomi" =>
        /\ clock'.remaining <= clock.remaining
        /\ clock.remaining = 0 => clock'.remaining = 0

C14_ByoyomiStep ==
    /\ [](ByoyomiCharge /\ (clock.tc.k = "Byoyomi" => clock.remaining >= 0))
    /\ [][ByoyomiDrained]_vars

C14_Witness ==
    /\ clock.tc = TcByoyomi(2000, 1000)
    /\ charges = 4
    /\ LastCharge.before.remaining = 0
    /\ LastCharge.d = 1200
    /\ LastCharge.ret = "TimeElapsed"
    /\ clock.remaining = 0

\* C15: under None, Nodes and MoveTime a step never changes remaining, which
\* is zero from the start; the step answers Ok under None and Nodes, and
\* under MoveTime(max) it answers TimeElapsed exactly when d > max.
C15_UntimedStep ==
    clock.tc.k \in {"None", "Nodes", "MoveTime"} =>
        /\ clock.remaining = 0
        /\ Charged =>
              /\ clock = LastCharge.before
              /\ clock.tc.k \in {"None", "Nodes"} => LastCharge.ret = "Ok"
              /\ clock.tc.k = "MoveTime" =>
                    (LastCharge.ret = "TimeElapsed" <=> LastCharge.d > clock.tc.a)
                    /\ LastCharge.ret \in {"Ok", "TimeElapsed"}

C15_Witness ==
    /\ clock.tc = TcMoveTime(2)
    /\ charges = 2
    /\ LastCharge.d = 2
    /\ LastCharge.ret = "Ok"

\* C16: on every ply the deadline given to the bestmove wait comes from the
\* clock of the side to move as it is before the move: none under None and
\* Nodes, otherwise the entitlement plus the margin, the entitlement being d
\* under MoveTime(d), remaining + byoyomi under Byoyomi and remaining under
\* Fischer.
Entitlement(c) ==
    CASE c.tc.k = "MoveTime" -> c.tc.a
      [] c.tc.k = "Byoyomi"  -> c.remaining + c.tc.b
      [] c.tc.k = "Fischer"  -> c.remaining

DeadlineFromMoverClock ==
    mpc = "loop" =>
        LET c == engine_time[to_index(stm)]
        IN /\ last'.stm = stm
           /\ IF c.tc.k \in {"None", "Nodes"}
              THEN last'.deadline = None
              ELSE last'.deadline = Some(Entitlement(c) + c.margin)

C16_BestmoveDeadline == [][DeadlineFromMoverClock]_vars

C16_Witness ==
    /\ last.ev = "Ok"
    /\ Len(match_result.moves) >= 2
    /\ engine_time[to_index(last.stm)].tc.k = "Fischer"
    /\ engine_time[to_index(Not(last.stm))].tc.k = "Byoyomi"
    /\ IsSome(last.deadline)
    /\ Unwrap(last.deadline) # engine_time[to_index(last.stm)].remaining
                               + engine_time[to_index(last.stm)].margin

\* C17: for a Fischer or Byoyomi side to move whose opponent is under the
\* same kind of time control, the `go` arguments are the mover's fields and
\* then the opponent's, each remaining value from that colour's own clock:
\* `<stm>time R <stm>inc I <nstm>time R' <nstm>inc I'` under Fischer and
\* `<stm>time R byoyomi Y <nstm>time R'` under Byoyomi, with b for Sente and
\* w for Gote; whatever the opponent's control, the mover's fields come
\* first.  (Sente to move, 60000/59000, +500: `btime 60000 binc 500 wtime
\* 59000 winc 500`; Gote to move, 100000/90000, byoyomi 5000: `wtime 90000
\* byoyomi 5000 btime 100000`.)
Formatted == IsSome(goArgs)
GoColor   == Unwrap(goArgs).color
GoText    == Unwrap(goArgs).args
MoverTime == goTimes[to_index(GoColor)]
OtherTime == goTimes[to_index(Not(GoColor))]
MoverLetter == IF GoColor = "Sente" THEN "b" ELSE "w"
OtherLetter == IF GoColor = "Sente" THEN "w" ELSE "b"

MoverFields ==
    IF MoverTime.tc.k = "Fischer"
    THEN <<Word(MoverLetter \o "time"), Space, Num(MoverTime.remaining), Space,
           Word(MoverLetter \o "inc"), Space, Num(MoverTime.tc.b)>>
    ELSE <<Word(MoverLetter \o "time"), Space, Num(MoverTime.remaining), Space,
           Word("byoyomi"), Space, Num(MoverTime.tc.b)>>

OtherFields ==
    IF OtherTime.tc.k = "Fischer"
    THEN <<Space, Word(OtherLetter \o "time"), Space, Num(OtherTime.remaining),
           Space, Word(OtherLetter \o "inc"), Space, Num(OtherTime.tc.b)>>
    ELSE <<Space, Word(OtherLetter \o "time"), Space, Num(OtherTime.remaining)>>

C17_GoTimedSides ==
    (Formatted /\ MoverTime.tc.k \in {"Fischer", "Byoyomi"}) =>
        /\ Len(GoText) >= Len(MoverFields)
        /\ SubSeq(GoText, 1, Len(MoverFields)) = MoverFields
        /\ OtherTime.tc.k = MoverTime.tc.k => GoText = MoverFields \o OtherFields
        /\ (/\ GoColor = "Sente"
            /\ MoverTime.tc = TcFischer(59500, 500) /\ MoverTime.remaining = 60000
            /\ OtherTime.tc = TcFischer(59500, 500) /\ OtherTime.remaining = 59000)
           => GoText = <<Word("btime"), Space, Num(60000), Space,
                         Word("binc"), Space, Num(500), Space,
                         Word("wtime"), Space, Num(59000), Space,
                         Word("winc"), Space, Num(500)>>
        /\ (/\ GoColor = "Gote"
            /\ MoverTime.tc = TcByoyomi(100000, 5000) /\ MoverTime.remaining = 90000
            /\ OtherTime.tc = TcByoyomi(100000, 5000) /\ OtherTime.remaining = 100000)
           => GoText = <<Word("wtime"), Space, Num(90000), Space,
                         Word("byoyomi"), Space, Num(5000), Space,
                         Word("btime"), Space, Num(100000)>>

C17_Witness ==
    /\ Formatted
    /\ GoColor = "Gote"
    /\ MoverTime.tc = TcByoyomi(100000, 5000) /\ MoverTime.remaining = 90000
    /\ OtherTime.tc = TcByoyomi(100000, 5000) /\ OtherTime.remaining = 100000
    /\ Len(GoText) = 11

\* C18: a side to move under None gets empty `go` arguments, under
\* Nodes(N) exactly `nodes N`, under MoveTime(d) exactly `<stm>time 0 byoyomi
\* <d_ms>`, whatever the opponent's time control.
UntimedFields ==
    CASE MoverTime.tc.k = "None"     -> <<>>
      [] MoverTime.tc.k = "Nodes"    -> <<Word("nodes"), Space, Num(MoverTime.tc.a)>>
      [] MoverTime.tc.k = "MoveTime" -> <<Word(MoverLetter \o "time"), Space,
                                          Num(0), Space, Word("byoyomi"), Space,
                                          Num(MoverTime.tc.a)>>

C18_GoUntimedExact ==
    (Formatted /\ MoverTime.tc.k \in {"None", "Nodes", "MoveTime"}) =>
        GoText = UntimedFields

\* C19: one-sided resignation.  With resign = {two_sided false, K, s} and S
\* the colour that just moved, the result becomes WinByAdjudication(not S)
\* exactly when S's own last moves (the opponent's skipped), counted back
\* from the end while the score is Cp <= -s or Mate < 0, number at least K;
\* Score::None, Cp above -s and Mate > 0 end the count; otherwise the outcome
\* stays Undetermined (no other rule being configured).
AdjCalled == Len(adjMoves) >= 1 /\ adjStm = adjMoves[Len(adjMoves)].stm
JustMoved == adjMoves[Len(adjMoves)].stm
Front(q)  == SubSeq(q, 1, Len(q) - 1)

ReportsLoss(m, sc) ==
    \/ m.score.k = "Cp"   /\ m.score.v <= -sc
    \/ m.score.k = "Mate" /\ m.score.v < 0

ReportsWin(m, sc) ==
    \/ m.score.k = "Cp"   /\ m.score.v >= sc
    \/ m.score.k = "Mate" /\ m.score.v > 0

RECURSIVE OwnLosingRun(_, _, _)
OwnLosingRun(q, side, sc) ==
    IF Len(q) = 0 THEN 0
    ELSE IF q[Len(q)].stm # side THEN OwnLosingRun(Front(q), side, sc)
    ELSE IF ReportsLoss(q[Len(q)], sc)
         THEN 1 + OwnLosingRun(Front(q), side, sc)
         ELSE 0

OtherRulesOff == IsNone(adjOpts.max_moves) /\ IsNone(adjOpts.draw)

C19_OneSidedResign ==
    (AdjCalled /\ IsSome(adjOpts.resign) /\ ~Unwrap(adjOpts.resign).two_sided) =>
        LET r   == Unwrap(adjOpts.resign)
            run == OwnLosingRun(adjMoves, JustMoved, r.score)
        IN /\ adjOut.k = "WinByAdjudication" <=> run >= r.move_count
           /\ run >= r.move_count =>
                 adjOut = Outcome("WinByAdjudication", Not(JustMoved))
           /\ (run < r.move_count /\ OtherRulesOff) => adjOut = Undetermined

C19_Witness ==
    /\ adjOpts = [max_moves |-> None, draw |-> None,
                  resign |-> Some([move_count |-> 2, score |-> 2,
                                   two_sided |-> FALSE])]
    /\ adjMoves = << [stm |-> "Sente", score |-> Cp(-2)],
                     [stm |-> "Gote",  score |-> ScoreNone],
                     [stm |-> "Sente", score |-> Mate(-1)] >>
    /\ adjOut = Outcome("WinByAdjudication", "Gote")

\* C20: two-sided resignation.  With resign = {two_sided true, K, s} and S
\* the colour that just moved, the result becomes WinByAdjudication(not S)
\* exactly when the last moves of both sides, counted back from the end
\* while S's moves report Cp <= -s or Mate < 0 and the opponent's report
\* Cp >= s or Mate > 0, number at least K; one move that does not agree ends
\* the count and the outcome stays Undetermined (no other rule being
\* configured).
Agrees(m, side, sc) ==
    IF m.stm = side THEN ReportsLoss(m, sc) ELSE ReportsWin(m, sc)

RECURSIVE AgreedRun(_, _, _)
AgreedRun(q, side, sc) ==
    IF Len(q) = 0 THEN 0
    ELSE IF Agrees(q[Len(q)], side, sc)
         THEN 1 + AgreedRun(Front(q), side, sc)
         ELSE 0

C20_TwoSidedResign ==
    (AdjCalled /\ IsSome(adjOpts.resign) /\ Unwrap(adjOpts.resign).two_sided) =>
        LET r   == Unwrap(adjOpts.resign)
            run == AgreedRun(adjMoves, JustMoved, r.score)
        IN /\ adjOut.k = "WinByAdjudication" <=> run >= r.move_count
           /\ run >= r.move_count =>
                 adjOut = Outcome("WinByAdjudication", Not(JustMoved))
           /\ (run < r.move_count /\ OtherRulesOff) => adjOut = Undetermined

C20_Witness ==
    /\ adjOpts = [max_moves |-> None, draw |-> None,
                  resign |-> Some([move_count |-> 3, score |-> 2,
                                   two_sided |-> TRUE])]
    /\ adjMoves = << [stm |-> "Sente", score |-> Cp(-2)],
                     [stm |-> "Gote",  score |-> Cp(2)],
                     [stm |-> "Sente", score |-> Mate(-1)] >>
    /\ adjOut = Outcome("WinByAdjudication", "Gote")

\* C21: draw adjudication.  With draw = {move_number, move_count, score} the
\* result becomes DrawByAdjudication exactly when at least move_number moves
\* have been played and the last moves of both sides, counted back from the
\* end while the score is Cp with |cp| <= score, number at least move_count;
\* a Mate or None score ends the count (no resignation rule being
\* configured; with one, a draw is still never declared otherwise).
RECURSIVE QuietRun(_, _)
QuietRun(q, sc) ==
    IF Len(q) = 0 THEN 0
    ELSE IF /\ q[Len(q)].score.k = "Cp"
            /\ q[Len(q)].score.v <= sc
            /\ q[Len(q)].score.v >= -sc
         THEN 1 + QuietRun(Front(q), sc)
         ELSE 0

DrawDue ==
    /\ Len(adjMoves) >= Unwrap(adjOpts.draw).move_number
    /\ QuietRun(adjMoves, Unwrap(adjOpts.draw).score)
          >= Unwrap(adjOpts.draw).move_count

RECURSIVE Flatten(_)
Flatten(ls) == IF Len(ls) = 0 THEN <<>> ELSE Flatten(Front(ls)) \o ls[Len(ls)]

OneLine(l) ==
    /\ Len(l) >= 1
    /\ l[Len(l)] = "LF"
    /\ \A j \in 1..(Len(l) - 1) : l[j] # "LF"

C23_LineWithoutLF ==
    \A k \in 1..Len(delivered) : \A j \in 1..Len(delivered[k]) : delivered[k][j] # "LF"

\* The k-th LF-terminated line of the child's stream, line feed included.
RECURSIVE StreamLine(_, _)
StreamLine(s, k) ==
    IF k = 1 THEN SubSeq(s, 1, memchr(s))
    ELSE StreamLine(SubSeq(s, memchr(s) + 1, Len(s)), k - 1)

\* C23 amended: a line handed to the callback is the line's bytes with the
\* trailing LF still on it, and with the CR before the LF when the child
\* sent CRLF: the callback gets the bytes of the stream's line unchanged.
C23_LineWithLF ==
    \A k \in 1..Len(delivered) :
        /\ delivered[k] = StreamLine(stream, k)
        /\ delivered[k][Len(delivered[k])] = "LF"

\* The child sent `info` CR LF.
C23_Witness == delivered = << <<"i", "CR", "LF">> >>

\* C24: init writes `usi` first and no setoption before usiok has been
\* received; without usiok it fails, with kind TimedOut on a reader Timeout
\* and UnexpectedEof on a disconnection, and no setoption is sent; on success
\* one `setoption name K value V` line per configured option has been sent,
\* in configuration order, and the engine's name is the configured name, else
\* the text of the last `id name` line seen before usiok, else the command.
IsSetOption(l) == l[1] = "setoption"
IdNames == SelectSeq(seen, LAMBDA l : Len(l) >= 3 /\ l[1] = "id" /\ l[2] = "name")
UsiokSeen == Len(seen) >= 1 /\ seen[Len(seen)][1] = "usiok"
ExpectedName ==
    IF IsSome(builder.name) THEN Unwrap(builder.name)
    ELSE IF Len(IdNames) >= 1 THEN Tail(Tail(IdNames[Len(IdNames)]))
    ELSE builder.cmd

C24_InitHandshake ==
    /\ Len(sentLines) >= 1 /\ sentLines[1] # <<"quit">> => sentLines[1] = <<"usi">>
    /\ (\E j \in 1..Len(sentLines) : IsSetOption(sentLines[j])) => UsiokSeen
    /\ usiRes = "Timeout" =>
          initRet = InitErr("TimedOut") /\ OptionsSent = 0
    /\ usiRes = "Disconnected" =>
          initRet = InitErr("UnexpectedEof") /\ OptionsSent = 0
    /\ initRet = InitOk =>
          /\ sentLines = <<<<"usi">>>> \o
                [j \in 1..Len(builder.usi_options) |-> SetOptionLine(builder.usi_options[j])]
          /\ engine_name = ExpectedName

\* No name configured, two `id name` lines before usiok, two options.
C24_Witness ==
    /\ initRet = InitOk
    /\ IsNone(builder.name)
    /\ seen = << <<"id", "name", "Foo">>, <<"id", "name", "Bar", "2">>, <<"usiok">> >>
    /\ engine_name = <<"Bar", "2">>
    /\ Len(builder.usi_options) = 2
    /\ builder.usi_options[1] # builder.usi_options[2]

\* C25: in every game each of the two engines of the ticket is sent isready,
\* answers readyok and is then sent usinewgame, once, all of it before the
\* first position goes to either engine; afterwards every ply writes to the
\* engine of the side to move only, position and then go, and bestmove is
\* awaited only after both were written.
Handshake ==
    << <<1, "isready">>, <<1, "readyok">>, <<1, "usinewgame">>,
       <<2, "isready">>, <<2, "readyok">>, <<2, "usinewgame">> >>

\* The side that moves on the k-th ply of the game.
MoverOfPly(k) ==
    IF k <= Len(match_result.moves) THEN match_result.moves[k].stm ELSE stm

C25_ProtocolOrder ==
    /\ \A j \in 1..Len(sent) :
          IF j <= Len(Handshake)
          THEN sent[j] = Handshake[j]
          ELSE sent[j] = <<to_index(MoverOfPly((j - 5) \div 2)),
                           IF j % 2 = 1 THEN "position" ELSE "go">>
    /\ last.ev \in {"Ok", "Timeout", "Disconnected"} =>
          /\ Len(sent) > Len(Handshake) /\ Len(sent) % 2 = 0
          /\ sent[Len(sent)] = <<to_index(last.stm), "go">>

\* Gote moved first; three plies have been played and the game goes on.
C25_Witness ==
    /\ mpc = "loop"
    /\ Len(match_result.moves) = 3
    /\ match_result.moves[1].stm = "Gote"
    /\ sent = Handshake \o << <<2, "position">>, <<2, "go">>, <<1, "position">>,
                              <<1, "go">>, <<2, "position">>, <<2, "go">> >>

\* C26 as stated: before the position of every move, the engine to move has
\* been sent isready and has answered readyok for that move (only a
\* usinewgame may stand between readyok and position), and usinewgame is sent
\* to an engine once per game.
CountSent(e, cmd) == Len(SelectSeq(sent, LAMBDA x : x = <<e, cmd>>))

C26_ReadyBeforeEveryMove ==
    /\ \A j \in 1..Len(sent) :
          sent[j][2] = "position" =>
              LET e == sent[j][1]
                  r == IF sent[j - 1] = <<e, "usinewgame">> THEN j - 2 ELSE j - 1
              IN r >= 2 /\ sent[r] = <<e, "readyok">> /\ sent[r - 1] = <<e, "isready">>
    /\ \A e \in 1..2 : CountSent(e, "usinewgame") <= 1

\* C26 amended: the engine to move has been sent isready and has answered
\* readyok once, at the start of the game, followed by its one usinewgame,
\* before the position of any of its moves; no isready is sent for a later
\* move.
ReadyPart(e) ==
    SelectSeq(sent, LAMBDA x : x[1] = e /\ x[2] \notin {"position", "go"})

C26_ReadyOncePerGame ==
    \A e \in 1..2 :
        /\ \E n \in 0..3 : ReadyPart(e) = SubSeq(ReadyExchange(e, "Ok"), 1, n)
        /\ \A j \in 1..Len(sent) :
              sent[j] = <<e, "position">> =>
                  \E c \in 1..(j - 1) : sent[c] = <<e, "usinewgame">>

\* Sente's engine has been sent position for its second move.
C26_Witness ==
    /\ CountSent(1, "position") = 2
    /\ CountSent(1, "isready") = 1
    /\ last.ev = "Ok" /\ last.stm = "Sente"

\* C29: a Timeout or a Disconnected of the timed reader while readyok is
\* awaited at the start of a match is recovered inside the match: run_match
\* returns a MatchResult with LossByClock / LossByDisconnection for that
\* engine's colour, and no io error.
C29_ReadyFailureRecovered ==
    /\ last.ev = "ReadyTimeout" =>
          ret = "Ok" /\ match_result.outcome = TimeoutOutcome(last.stm)
    /\ last.ev = "ReadyDisconnected" =>
          ret = "Ok" /\ match_result.outcome = DisconnectedOutcome(last.stm)

\* C27: the scheduler calls match_complete once for every result it
\* receives, as it receives it, and print_interval_report right after the
\* k-th match_complete exactly when report_interval = Some(n) and k mod n = 0;
\* with report_interval = None there is never an interval report.
ReportDue(k) == IsSome(report_interval) /\ k % Unwrap(report_interval) = 0

C27_Counts ==
    /\ match_count = Cardinality(results)
    /\ Len(rrState) = match_count
    /\ \A i \in 1..Len(reports) :
          /\ reports[i] \in 1..match_count /\ ReportDue(reports[i])
          /\ i > 1 => reports[i - 1] < reports[i]
    /\ \A k \in 1..match_count : ReportDue(k) => \E i \in 1..Len(reports) : reports[i] = k
    /\ IsNone(report_interval) => reports = <<>>

C27_ResultStep ==
    IF results' # results
    THEN /\ Cardinality(results') = Cardinality(results) + 1
         /\ Len(rrState') = Len(rrState) + 1
         /\ match_count' = match_count + 1
         /\ reports' = IF ReportDue(match_count') THEN Append(reports, match_count')
                       ELSE reports
    ELSE UNCHANGED <<rrState, match_count, reports>>

C27_IntervalReports == [](C27_Counts) /\ [][C27_ResultStep]_vars

\* A report after the second and after the fourth result, none after the
\* first and the third.
C27_Witness ==
    /\ report_interval = Some(2)
    /\ match_count = 4
    /\ reports = <<2, 4>>

\* C28: after a match that ended with LossByDisconnection the worker sends
\* the result and starts the disconnected engine afresh before its next
\* ticket, so that whenever it runs a ticket both engines of the ticket are
\* connected and the ticket does not fail on a dead engine.
C28_EngineRestarted ==
    /\ tpc = "running" => engines[Unwrap(job)[1]] /\ engines[Unwrap(job)[2]]
    /\ failure # "DeadEngine"

\* C30: the millisecond timeout handed to poll is min(D in whole ms,
\* 2^31 - 1) for every deadline Some(D), never negative and never wrapped;
\* it is -1 only when the deadline is None; and a duration above INT32_MAX ms
\* gives what exactly INT32_MAX ms gives.
PollCalled == polls >= 1
AboveI32Max(d) == d.hi > 32767
ExactlyI32Max == [hi |-> 32767, lo |-> 65535, sub |-> 0]

C30_PollTimeoutClamped ==
    PollCalled =>
        /\ IsSome(pollArg) =>
              /\ pollMs >= 0 /\ pollMs <= I32Max
              /\ IF AboveI32Max(Unwrap(pollArg))
                 THEN /\ pollMs = I32Max
                      /\ pollMs = timeout_ms(Some(ExactlyI32Max))
                 ELSE /\ pollMs \div Limb = Unwrap(pollArg).hi
                      /\ pollMs % Limb = Unwrap(pollArg).lo
        /\ pollMs = -1 <=> IsNone(pollArg)

\* A deadline of 2^32 + 2^16 + 1 ms, whose low 32 bits are 65537.
C30_Witness ==
    /\ PollCalled
    /\ pollArg = Some([hi |-> 65537, lo |-> 1, sub |-> 0])
    /\ pollMs = I32Max

\* C32: within one do_adjudication call the rules are tried in the order
\* move limit, draw, one-sided resignation, two-sided resignation, and a rule
\* sets the outcome only while it is still Undetermined: when the conditions
\* of several rules hold on the same ply the earliest of them decides.
MoveLimitDue ==
    IsSome(adjOpts.max_moves) /\ Len(adjMoves) >= Unwrap(adjOpts.max_moves)

DrawRuleDue == IF IsSome(adjOpts.draw) THEN DrawDue ELSE FALSE

ResignDue ==
    IF IsNone(adjOpts.resign) THEN FALSE
    ELSE LET r == Unwrap(adjOpts.resign)
         IN IF r.two_sided
            THEN AgreedRun(adjMoves, JustMoved, r.score) >= r.move_count
            ELSE OwnLosingRun(adjMoves, JustMoved, r.score) >= r.move_count

EarliestRule ==
    IF MoveLimitDue THEN Outcome("DrawByMoveLimit", "-")
    ELSE IF DrawRuleDue THEN Outcome("DrawByAdjudication", "-")
    ELSE IF ResignDue THEN Outcome("WinByAdjudication", Not(JustMoved))
    ELSE Undetermined

C32_EarliestRuleDecides == AdjCalled => adjOut = EarliestRule

\* C33: do_adjudication called with a colour that is not the colour of the
\* last recorded move returns normally, and its resignation checks change
\* nothing: the outcome is what the move-limit and draw rules made it.
CalledWithOther ==
    Len(adjMoves) >= 1 /\ adjStm = Not(adjMoves[Len(adjMoves)].stm)

C35_Alternating ==
    LET mv == match_result.moves
    IN /\ \A i \in 1..(Len(mv) - 1) : mv[i + 1].stm = Not(mv[i].stm)
       /\ (mpc = "loop" /\ Len(mv) >= 1) => mv[Len(mv)].stm = Not(stm)
       /\ (last.ev = "Ok") => (Len(mv) >= 1 /\ mv[Len(mv)].stm = last.stm)

C35_PlyStep ==
    LET mv  == match_result.moves
        mv2 == match_result'.moves
    IN /\ mpc = "start" => (mv2 = mv /\ mv = <<>> /\ stm' = stm)
       /\ (mpc = "loop" /\ last'.ev = "Ok") =>
              /\ Len(mv2) = Len(mv) + 1
              /\ SubSeq(mv2, 1, Len(mv)) = mv
              /\ mv2[Len(mv2)].stm = stm
       /\ (mpc = "loop" /\ last'.ev # "Ok") =>
              /\ mv2 = mv
              /\ last'.ev \in {"Timeout", "Disconnected"} =>
                     match_result'.outcome \in
                        {Outcome("LossByClock", stm),
                         Outcome("LossByDisconnection", stm)}

C35_MovesInPlayOrder == [](C35_Alternating) /\ [][C35_PlyStep]_vars

C35_Witness ==
    /\ Returned
    /\ last.ev = "Ok"
    /\ last.time_outcome = "TimeElapsed"
    /\ Len(match_result.moves) = 3
    /\ match_result.moves[1].stm = "Gote"
    /\ match_result.outcome = Outcome("LossByClock", "Gote")

\* C37: the margin lengthens the wait and not the budget.  Whatever duration
\* above the entitlement of the side to move is measured on a ply that
\* received bestmove, the record is appended, the clock charge returns
\* TimeElapsed and the match ends LossByClock of the mover; a reader Timeout
\* happens only under a deadline of entitlement plus margin.
C37_LateMove ==
    (mpc = "loop" /\ last'.ev = "Ok"
        /\ engine_time[to_index(stm)].tc.k \notin {"None", "Nodes"}
        /\ last'.duration > Entitlement(engine_time[to_index(stm)])) =>
      /\ last'.time_outcome = "TimeElapsed"
      /\ Len(match_result'.moves) = Len(match_result.moves) + 1
      /\ match_result'.outcome = Outcome("LossByClock", stm)
      /\ mpc' = "returned" /\ ret' = "Ok"

C37_TimeoutDeadline ==
    (mpc = "loop" /\ last'.ev = "Timeout") =>
      LET c == engine_time[to_index(stm)]
      IN /\ c.tc.k \notin {"None", "Nodes"}
         /\ last'.deadline = Some(Entitlement(c) + c.margin)

C37_MarginOnlyLengthensWait ==
    [][C37_LateMove /\ C37_TimeoutDeadline]_vars

C37_Witness ==
    /\ Returned
    /\ last.ev = "Ok"
    /\ last.time_outcome = "TimeElapsed"
    /\ engine_time[to_index(last.stm)].tc = TcMoveTime(1)
    /\ engine_time[to_index(last.stm)].margin = 1
    /\ last.deadline = Some(2)
    /\ last.duration = 2
    /\ Len(match_result.moves) = 1
    /\ match_result.outcome = Outcome("LossByClock", last.stm)

\* C38: a ply changes at most the clock of the side to move, the other
\* side's clock (time control, margin and remaining time) stays as it was,
\* no step outside a ply changes a clock, and a match starts with both
\* clocks as EngineTime::new makes them from the configured time controls.
C38_FreshAtStart ==
    mpc = "start" =>
      \A i \in 1..2 :
          engine_time[i] = EngineTime_new(engine_time[i].tc, engine_time[i].margin)

C38_OpponentUntouched ==
    /\ mpc = "loop" =>
          engine_time'[to_index(Not(stm))] = engine_time[to_index(Not(stm))]
    /\ (mpc # "loop" \/ last'.ev # "Ok") => engine_time' = engine_time
    /\ \A i \in 1..2 : /\ engine_time'[i].tc = engine_time[i].tc
                        /\ engine_time'[i].margin = engine_time[i].margin

BufferedLine == memchr(read_buf) # 0

C40_BufferedLineDelivered ==
    (rdpc = "done" /\ rdres = "Timeout") => ~BufferedLine

\* C39: once next() has returned None every later call returns None.  Such a
\* call goes on as before: match_index grows by one, and on the call that
\* closes a group of `rounds` tickets the opening book moves on and, with
\* more than one pairing, so does the pairing cursor.  It leaves
\* completed_matches and total_matches alone, so match_complete answers
\* Stop from the total_matches-th completion on, whatever next() was called
\* in between.
C39_NoneIsFinal ==
    /\ \A i \in 1..Len(rrLog) : \A j \in i..Len(rrLog) :
          IsNone(rrLog[i]) => IsNone(rrLog[j])
    /\ \A k \in 1..Len(rrState) :
          rrState[k] = "Stop" <=>
             (IsSome(rr.total_matches) /\ k >= Unwrap(rr.total_matches))

NextAfterNone ==
    /\ Len(rrLog') = Len(rrLog) + 1
    /\ Len(rrLog) >= 1
    /\ IsNone(rrLog[Len(rrLog)])

C39_ExtraCall ==
    NextAfterNone =>
      /\ IsNone(rrLog'[Len(rrLog')])
      /\ rr'.match_index = rr.match_index + 1
      /\ (rr'.match_index % rr.rounds = 0) =>
            /\ rr'.openings = (rr.openings + 1) % BookLen
            /\ rr.players > 2 => rr'.next_players # rr.next_players
      /\ (rr'.match_index % rr.rounds # 0) =>
            /\ rr'.openings = rr.openings
            /\ rr'.next_players = rr.next_players
      /\ rr'.completed_matches = rr.completed_matches
      /\ rr'.total_matches = rr.total_matches
      /\ RoundRobin_match_complete(rr').ret = RoundRobin_match_complete(rr).ret

C39_NoneForever == [](C39_NoneIsFinal) /\ [][C39_ExtraCall]_vars

C39_Witness ==
    /\ Len(rrLog) >= 3
    /\ IsNone(rrLog[Len(rrLog) - 1])
    /\ IsNone(rrLog[Len(rrLog)])
    /\ rr.players = 3
    /\ rr.next_players # <<0, 1>>
    /\ rr.match_index > Unwrap(rr.total_matches) + 1
    /\ Len(rrState) >= 1
    /\ rrState[Len(rrState)] = "Stop"

\* C36: under RoundRobin alone with games = Some(g), match_complete answers
\* Stop on the T-th completion and on no earlier one (T = pairings * rounds
\* * g).  When Stop has been answered every ticket 0..T-1 has had its result
\* delivered exactly once, no worker is running a match or holding a result,
\* and the scheduler holds no ticket.  If every match produces a result,
\* Runner::run then gets to tournament_complete.
RoundRobinAlone == ~sprt /\ IsSome(rr.games)

C36_StopAtLast ==
    RoundRobinAlone =>
      /\ Len(rrState) <= TotalTickets
      /\ \A k \in 1..Len(rrState) : rrState[k] = "Stop" <=> k = TotalTickets
      /\ state = "Stop" =>
            /\ Len(rrState) = TotalTickets
            /\ {r[2].id : r \in results} = 0..(TotalTickets - 1)
            /\ Cardinality(results) = TotalTickets
            /\ match_count = TotalTickets
            /\ \A w \in Workers : wpc[w] \in {"recv", "exited"}
            /\ \A w \in Workers : IsNone(wticket[w])
            /\ IsNone(ticket)

NoResult == \E w \in Workers : wpc[w] = "panicked"

C36_Terminates ==
    <>(spc = "done" \/ ~RoundRobinAlone \/ NoResult)

C36_StopOnLastCompletion == [](C36_StopAtLast) /\ C36_Terminates

C36_Witness ==
    /\ RoundRobinAlone
    /\ concurrency = 2
    /\ TotalTickets = 6
    /\ spc = "done"
    /\ completeCalls = 1
    /\ \E r1, r2 \in results : r1[1] # r2[1]

\* C31: for every TimeControl value with durations of whole milliseconds,
\* zero base and zero increment included, parse(to_string()) gives back
\* Some of the value.
C31_RoundTrip == tcpc = "parsed" => tcParsed = Some(tcv)

\* C34: the wrapper chain is transparent.  Every call on the outermost
\* Tournament returns, and returns what the wrapped RoundRobin returned; the
\* RoundRobin sees the same calls, once each and in the same order; and the
\* PGN record of a result is written just before the RoundRobin sees it.
InnerCalls == SelectSeq(chain.trace, LAMBDA e : e.who = "inner")

C34_ChainTransparent ==
    /\ Len(outerRet) = Len(outerCalls)
    /\ outerRet = chain.innerRet
    /\ Len(InnerCalls) = Len(outerCalls)
    /\ \A i \in 1..Len(InnerCalls) :
          /\ InnerCalls[i].call = outerCalls[i].call
          /\ InnerCalls[i].id = outerCalls[i].id
    /\ pgnOn =>
          \A i \in 1..Len(chain.trace) :
             (chain.trace[i].who = "inner" /\ chain.trace[i].call = "match_complete")
                => (i > 1 /\ chain.trace[i - 1] = Event("pgn", "write", chain.trace[i].id))

====
